---- MODULE Spec2Model ----
(***************************************************************************)
(* Model of the annotation conversion engine of bluebeam-pdf-converter:    *)
(*   - IconIdAssigner (app/services/icon_config.py)                        *)
(*   - AnnotationReplacer.replace_annotations                              *)
(*     (app/services/annotation_replacer.py)                               *)
(*   - convert_pdf (app/routers/convert.py) with two requests in flight    *)
(*   - the services the engine uses: compound groups, icon rectangles,     *)
(*     icon configuration, LayerManager, BTXReferenceLoader,               *)
(*     AppearanceExtractor                                                 *)
(***************************************************************************)
EXTENDS Integers, Sequences, FiniteSets, TLC

\* ------------------------------------------------------------------------
\* Bounds
\* ------------------------------------------------------------------------
\* direct get_next_id calls between two resets (assigner specification)
MaxCalls == 3
\* reset() calls in one behaviour of the assigner specification
MaxResets == 2
\* entries of the page's /Annots array in the first run of a replacer
MaxAnnots == 2
\* entries of the page's /Annots array in a later run of the same replacer
MaxAnnotsRerun == 1
\* replace_annotations runs on one replacer
MaxRuns == 2
\* entries of the page of one of two concurrent conversion requests
MaxAnnotsConcurrent == 2
\* largest sequence counter a group is built with on its own
MaxGroupIndex == 1
\* writers one LayerManager is applied to
MaxWriters == 3
\* .btx files in toolchest/bidTools
MaxFiles == 2
\* annotations of the reference document of the appearance extractor
MaxRefAnnots == 2
\* save() calls on one override store
MaxSaves == 3
\* pieces in which json.dump writes one document to the temp file
MaxChunks == 2
\* files stored in one FileManager
MaxStored == 2
\* hours the clock of the FileManager runs
MaxClock == 3

\* ------------------------------------------------------------------------
\* IconIdAssigner
\* ------------------------------------------------------------------------
None == "None"
\* get_next_id calls for one subject in a row (long runs specification)
MaxBurst == 201
\* rows of get_next_id calls between two resets (long runs specification)
MaxBursts == 2

\* Deployment subjects with an entry in ID_PREFIX_CONFIG (a sample that has
\* one prefix-first subject, one number-first subject, two subjects sharing a
\* prefix with different starts, two subjects sharing prefix and start, and
\* two subjects of different formats with the same prefix and start).
IdSubjects ==
    { "AP - Cisco MR36H", "CCTV - Cisco MV93X", "SW - Cisco Micro 4P",
      "SW - Cisco 9300X 24X", "SW - Cisco 9300 12X36M",
      "DIST - Micro NOC", "DIST - Mini NOC" }

\* A deployment subject without an entry in ID_PREFIX_CONFIG.
NoIdSubjects == { "PWR - EcoFlow Battery" }

DeploymentSubjects == IdSubjects \cup NoIdSubjects

\* "absent" stands for a config dict without the "format" key.
ID_PREFIX_CONFIG ==
    [ s \in IdSubjects |->
        CASE s = "AP - Cisco MR36H"       -> [prefix |-> "j", start |-> 100, format |-> "absent"]
          [] s = "CCTV - Cisco MV93X"     -> [prefix |-> "a", start |-> 100, format |-> "number_first"]
          [] s = "SW - Cisco Micro 4P"    -> [prefix |-> "a", start |-> 100, format |-> "absent"]
          [] s = "SW - Cisco 9300X 24X"   -> [prefix |-> "d", start |-> 300, format |-> "absent"]
          [] s = "SW - Cisco 9300 12X36M" -> [prefix |-> "d", start |-> 500, format |-> "absent"]
          [] s = "DIST - Micro NOC"       -> [prefix |-> "f", start |-> 100, format |-> "absent"]
          [] s = "DIST - Mini NOC"        -> [prefix |-> "f", start |-> 100, format |-> "absent"] ]

\* config.get("format", "prefix_first")
format_type(config) ==
    IF config.format = "absent" THEN "prefix_first" ELSE config.format

\* A mutation of counter_key: the start is left out of the key.
counter_key_prefix_only(prefix, start) == <<prefix, "_">>

\* counter_key = f"{prefix}_{start}", as the sequence of its three parts.
counter_key(prefix, start) == <<prefix, "_", start>>

\* f"{current_num}{prefix}" or f"{prefix}{current_num}": the string, as the
\* order of its two parts and the parts (prefixes are letters and numbers
\* are digits, so two labels are the same string iff order and parts agree).
format_label(fmt, prefix, num) ==
    IF fmt = "number_first"
    THEN [order |-> "number_first", prefix |-> prefix, num |-> num]
    ELSE [order |-> "prefix_first", prefix |-> prefix, num |-> num]

\* The return value None of get_next_id.
NoLabel == [order |-> "None", prefix |-> "", num |-> 0]

\* The empty string "" the replacer passes on for a subject without label.
EmptyLabel == [order |-> "", prefix |-> "", num |-> 0]

\* An absent reference or descriptor (no /IRT, no /Sequence).
Absent == <<>>

\* Extension of the dict c by c[k] = v.
DictSet(c, k, v) ==
    [ x \in (DOMAIN c) \cup {k} |-> IF x = k THEN v ELSE c[x] ]

\* The empty dict.
EmptyDict == [ x \in {} |-> 0 ]

\* A mutation of get_next_id: a new counter starts one above the start.
get_next_id_skip_first(c, deployment_subject) ==
    IF deployment_subject \notin DOMAIN ID_PREFIX_CONFIG
    THEN [counters |-> c, label |-> NoLabel]
    ELSE LET config == ID_PREFIX_CONFIG[deployment_subject]
             key == counter_key(config.prefix, config.start)
             num == IF key \notin DOMAIN c THEN config.start + 1 ELSE c[key] + 1
         IN  [counters |-> DictSet(c, key, num),
              label |-> format_label(format_type(config), config.prefix, num)]

\* IconIdAssigner.get_next_id on the counters c: the counters after the call
\* and the label returned.
get_next_id(c, deployment_subject) ==
    IF deployment_subject \notin DOMAIN ID_PREFIX_CONFIG
    THEN [counters |-> c, label |-> NoLabel]
    ELSE LET config == ID_PREFIX_CONFIG[deployment_subject]
             key == counter_key(config.prefix, config.start)
             num == IF key \notin DOMAIN c THEN config.start ELSE c[key] + 1
         IN  [counters |-> DictSet(c, key, num),
              label |-> format_label(format_type(config), config.prefix, num)]

\* A mutation of reset: the counters are kept.
reset_keeps(c) == c

\* IconIdAssigner.reset: self._counters.clear()
reset(c) == EmptyDict

\* FreshLabels(subjects): the labels a freshly constructed IconIdAssigner
\* returns for the lookups subjects[1], subjects[2], ... in this order.
RECURSIVE LabelsFrom(_, _)
LabelsFrom(c, subjects) ==
    IF subjects = <<>> THEN <<>>
    ELSE LET r == get_next_id(c, Head(subjects))
         IN  <<r.label>> \o LabelsFrom(r.counters, Tail(subjects))

\* IconIdAssigner.__init__: self._counters = {}
FreshCounters == EmptyDict

FreshLabels(subjects) == LabelsFrom(FreshCounters, subjects)

\* ------------------------------------------------------------------------
\* Collaborators of AnnotationReplacer
\* ------------------------------------------------------------------------
\* Subjects of input annotations.  The empty string is "no /Subj".
LegendSubjects == { "Legend - AP", "CLAIR GEAR LIST" }

BidSubjects ==
    { "", "Legend - AP", "CLAIR GEAR LIST",
      "Artist - Indoor Wi-Fi Access Point", "Bid - Battery",
      "Unmapped - Widget" }

\* The loaded bid -> deployment table of the MappingParser (an input of the
\* conversion): one legend subject is mapped, one is not.
Mappings ==
    [ b \in { "Legend - AP", "Artist - Indoor Wi-Fi Access Point",
              "Bid - Battery" } |->
        CASE b = "Legend - AP"                        -> "AP - Cisco MR36H"
          [] b = "Artist - Indoor Wi-Fi Access Point" -> "AP - Cisco MR36H"
          [] b = "Bid - Battery"                      -> "PWR - EcoFlow Battery" ]

\* MappingParser.get_deployment_subject: self.mappings.get(bid_subject)
get_deployment_subject(bid_subject) ==
    IF bid_subject \in DOMAIN Mappings THEN Mappings[bid_subject] ELSE None

\* A mutation of IsLegend: the gear-list marker is not tested.
IsLegend_without_gear_list(bid_subject) == bid_subject = "Legend - AP"

\* bid_subject and ("Legend" in bid_subject or "CLAIR GEAR LIST" in bid_subject)
IsLegend(bid_subject) == bid_subject # "" /\ bid_subject \in LegendSubjects

\* A mutation of CONVERTIBLE_SUBTYPES: /Popup is convertible too.
CONVERTIBLE_SUBTYPES_with_popup == { "/Circle", "/Square", "/Popup" }

CONVERTIBLE_SUBTYPES == { "/Circle", "/Square" }

\* Subjects for which get_icon_config returns a non-empty configuration
\* (the subjects of ICON_CATEGORIES that the mapping above can produce).
IconConfigSubjects == { "AP - Cisco MR36H", "PWR - EcoFlow Battery" }

\* What decides the list of components in render_compound_icon: the
\* no_id_box flag of the configuration, whether the gear image was loaded
\* (image_path set, no_image unset and the file exists), and whether the
\* model text and the brand text are non-empty.
ComponentFlags ==
    [ no_id_box : BOOLEAN, has_image : BOOLEAN,
      model_text : BOOLEAN, brand_text : BOOLEAN ]

\* The flags of the two configured subjects: neither sets no_id_box, the gear
\* images are installed, the model text is the end of the subject and the
\* brand text is "CISCO" (category default) and "ECOFLOW" (override).
SubjectFlags ==
    [ no_id_box |-> FALSE, has_image |-> TRUE,
      model_text |-> TRUE, brand_text |-> TRUE ]

Component(role, subtype, id_label) ==
    [ role |-> role, subtype |-> subtype, id_label |-> id_label ]

\* Lines 653-788 of render_compound_icon: the components in their fixed
\* order; id_label is the /Contents of the root.
compound_components(flags, id_label) ==
    << Component("root_id_text", "/FreeText",
                 IF flags.no_id_box THEN EmptyLabel ELSE id_label) >>
    \o (IF flags.no_id_box THEN <<>>
        ELSE << Component("id_box_border", "/Square", EmptyLabel) >>)
    \o << Component("container", "/FreeText", EmptyLabel),
          Component("circle", "/Circle", EmptyLabel) >>
    \o (IF flags.has_image
        THEN << Component("image", "/Square", EmptyLabel) >> ELSE <<>>)
    \o (IF flags.model_text
        THEN << Component("model_text", "/FreeText", EmptyLabel) >> ELSE <<>>)
    \o (IF flags.brand_text
        THEN << Component("brand_text", "/FreeText", EmptyLabel) >> ELSE <<>>)

\* IconRenderer.render_compound_icon: None (here the empty list, which the
\* caller treats alike) without configuration, else the components.
render_compound_icon(subject, id_label) ==
    IF subject \notin IconConfigSubjects THEN <<>>
    ELSE compound_components(SubjectFlags, id_label)

\* What get_icon_config returns for a subject without configuration (an
\* empty dict).
NoIconConfig ==
    [ configured |-> FALSE, image_path |-> "", no_image |-> FALSE,
      no_id_box |-> FALSE, model_text_override |-> "",
      model_uppercase |-> FALSE, brand_text |-> "" ]

\* The configurations of a subject, in the keys render_compound_icon reads
\* to decide its list of components.
IconConfigs ==
    [ configured : {TRUE}, image_path : {"", "APs/AP - Cisco MR36H.png"},
      no_image : BOOLEAN, no_id_box : BOOLEAN,
      model_text_override : {"", "Custom"}, model_uppercase : BOOLEAN,
      brand_text : {"", "CISCO"} ]

\* What get_model_text(subject) returns: the end of the subject, which is
\* empty for a subject that ends with its separator.
ModelTexts == { "", "Mr36h" }

\* str.upper on the model texts.
upper(text) ==
    CASE text = "Mr36h" -> "MR36H"
      [] text = "Custom" -> "CUSTOM"
      [] OTHER -> text

\* Lines 634-637 of render_compound_icon: the model text drawn.
model_text_of(config, derived) ==
    LET model_text == IF config.model_text_override # ""
                      THEN config.model_text_override ELSE derived
    IN  IF config.model_uppercase THEN upper(model_text) ELSE model_text

\* A mutation of component_flags: the image is loaded whatever no_image says.
component_flags_ignoring_no_image(config, image_exists, derived) ==
    [ no_id_box  |-> config.no_id_box,
      has_image  |-> config.image_path # "" /\ image_exists,
      model_text |-> model_text_of(config, derived) # "",
      brand_text |-> config.brand_text # "" ]

\* Lines 611-644 of render_compound_icon: what the configuration and the
\* gear icons directory decide.
component_flags(config, image_exists, derived) ==
    [ no_id_box  |-> config.no_id_box,
      has_image  |-> /\ config.image_path # ""
                     /\ ~config.no_image
                     /\ image_exists,
      model_text |-> model_text_of(config, derived) # "",
      brand_text |-> config.brand_text # "" ]

\* render_compound_icon on a configuration: None (the empty list) for the
\* empty configuration, else the components.
render_compound_from_config(config, image_exists, derived, id_label) ==
    IF ~config.configured THEN <<>>
    ELSE compound_components(component_flags(config, image_exists, derived),
                             id_label)

\* The entry of /GroupNesting for the name nm: f"/{nm}"
nesting_name(nm) == << "/", nm >>

\* A mutation of irt_of: each child points to the component before it.
irt_of_chained(i, src) == IF i = 1 THEN Absent ELSE <<src, i - 1>>

\* Lines 340-353: the root (i == 0 in the code, the first component) has no
\* /IRT, every other component has /IRT = root_ref.
irt_of(i, src) == IF i = 1 THEN Absent ELSE <<src, 1>>

\* A mutation of sequence_of: every component carries the descriptor.
sequence_of_every(i, iid, counter) == <<iid, counter>>

\* Lines 340-345: /Sequence {IID, Index} on the root only.
sequence_of(i, iid, counter) == IF i = 1 THEN <<iid, counter>> ELSE Absent

\* AnnotationReplacer._create_compound_annotation_group: the annotations
\* built for the components of the entry at index src, with the run's
\* sequence id and the sequence counter the root receives.  nm stands for
\* the generated /NM (one fresh name per component).
create_compound_annotation_group(components, deployment_subject, src, iid, counter) ==
    [ i \in 1..Len(components) |->
        [ kind      |-> "gen",
          src       |-> src,
          nm        |-> <<src, i>>,
          role      |-> components[i].role,
          subtype   |-> components[i].subtype,
          subj      |-> deployment_subject,
          id_label  |-> components[i].id_label,
          ap        |-> "component",
          nesting   |-> [ subject |-> deployment_subject,
                          names |-> [ j \in 1..Len(components) |->
                                        nesting_name(<<src, j>>) ] ],
          irt       |-> irt_of(i, src),
          sequence  |-> sequence_of(i, iid, counter) ] ]

\* AnnotationReplacer._create_deployment_annotation_dict: the single
\* fallback annotation for the entry at index src.  On this path
\* _render_rich_icon returns None (no renderer, or can_render is False for
\* a subject without configuration), so the appearance is the simple one.
create_deployment_annotation_dict(deployment_subject, annotation_type, src) ==
    [ kind      |-> "gen",
      src       |-> src,
      nm        |-> <<src, 0>>,
      role      |-> "single",
      subtype   |-> annotation_type,
      subj      |-> deployment_subject,
      id_label  |-> EmptyLabel,
      ap        |-> "simple",
      nesting   |-> [ subject |-> "", names |-> <<>> ],
      irt       |-> Absent,
      sequence  |-> Absent ]

\* ------------------------------------------------------------------------
\* Input annotations
\* ------------------------------------------------------------------------
\* An entry of /Annots.  fault = "deref": the reference does not resolve to
\* an annotation dictionary (get_object or annot.get raises), nothing of the
\* entry can be read.  rect = "invalid": /Rect missing or not 4 numbers;
\* rect = "raises": /Rect holds a value float() rejects.  fault = "convert":
\* a step of the conversion after the identifier lookup raises.  rect and
\* fault are only read for entries that reach the conversion.
ReadableEntries ==
    [ subtype : {"/Circle", "/Square", "/Popup"},
      subj    : BidSubjects,
      irt     : BOOLEAN,
      rect    : {"ok", "invalid", "raises"},
      fault   : {"none", "convert"} ]

UnreadableEntry ==
    [ subtype |-> "unreadable", subj |-> "", irt |-> FALSE,
      rect |-> "ok", fault |-> "deref" ]

\* The entry passes every test before the rectangle is read.
ReachesConvert(e) ==
    /\ e.fault # "deref"
    /\ ~IsLegend(e.subj)
    /\ e.subj # ""
    /\ get_deployment_subject(e.subj) # None
    /\ ~e.irt
    /\ e.subtype \in CONVERTIBLE_SUBTYPES

Entries ==
    { e \in ReadableEntries :
        /\ (~ReachesConvert(e) => e.rect = "ok" /\ e.fault = "none")
        /\ (e.rect # "ok" => e.fault = "none") }
    \cup { UnreadableEntry }

\* ------------------------------------------------------------------------
\* State
\* ------------------------------------------------------------------------
VARIABLES
    counters,          \* IconIdAssigner._counters
    calls,             \* subjects looked up since the last reset (log)
    labels,            \* values get_next_id returned since the last reset (log)
    resets,            \* direct reset() calls made (assigner specification)
    dirty,             \* the last reset found counters that were not empty
    pc,                \* replace_annotations: "idle", "loop", "done"
    runs,              \* replace_annotations calls started on this replacer
    has_renderer,      \* self.icon_renderer is not None
    input_exists,      \* input_pdf.exists() in the current run
    total,             \* length of the page's /Annots array
    annots,            \* the entries of /Annots the loop has read, in order
    new_annots,        \* the rebuilt array
    converted_count,
    skipped_count,
    skipped_subjects,
    sequence_counter,  \* self._sequence_counter
    sequence_iid,      \* self._sequence_iid
    output_written,    \* writer.write(output_pdf) has happened in this run
    run_raised,        \* the last replace_annotations call ended by raising
    replacers,         \* convert_pdf: the AnnotationReplacer of each request
    id_assigners,      \* _counters of the IconIdAssigner objects
    group_components,  \* render_compound_icon: the components returned
    group_subject,     \* the deployment subject of the group
    group,             \* _create_compound_annotation_group: the annotations
    raw_rect,          \* /Rect of the annotation being converted
    out_rects,         \* /Rect of the annotations emitted for it, by role
    icons,             \* "icons" of the icon overrides JSON file
    resolved_subject,  \* subject of the last get_icon_config call
    resolved,          \* configuration the last get_icon_config call returned
    reference_pdf,     \* LayerManager: what is at _reference_path now
    applied,           \* LayerManager._applied
    name_to_ref,       \* LayerManager._name_to_ref
    layer_count,       \* LayerManager._layer_count
    apply_result,      \* what the last apply_to_writer call returned
    writers,           \* writers handed to apply_to_writer so far
    writer_ocproperties, \* the last writer's catalog has /OCProperties
    toolchest,         \* what is at BTXReferenceLoader.toolchest_dir now
    bid_icons,         \* BTXReferenceLoader.bid_icons
    deployment_icons,  \* BTXReferenceLoader.deployment_icons
    loaded,            \* BTXReferenceLoader._loaded
    load_result,       \* how the last load_toolchest call ended
    scanned,           \* the directories the last load_toolchest call scanned
    request_pc,        \* convert_pdf: position of the request
    request_status,    \* HTTP status of the response (0: none yet)
    request_error,     \* the step whose exception the handler caught
    request_extractor, \* appearance_extractor of the request
    request_classified, \* annotations the request's replacer classified
    request_output,    \* the request has written output_path
    output_file,       \* a file exists at output_path
    reference_document, \* what is at the pdf_path given to load_from_pdf
    appearances,       \* AppearanceExtractor.appearances
    extractor_loaded,  \* AppearanceExtractor._loaded
    extractor_result,  \* how the last load_from_pdf call ended
    store_files,       \* IconOverrideStore: the files at json_path and tmp_path
    store_pc,          \* save(): "idle", "writing"
    store_saves,       \* save() calls begun
    store_previous,    \* what load() gave when the last save() began
    store_new,         \* the data of the last save()
    store_result,      \* the last save(): "none", "completed", "interrupted"
    store_loaded,      \* what the last load() returned
    fm_now,            \* FileManager: datetime.now(), in hours
    fm_files,          \* FileManager._files: created_at of each file_id
    fm_disk,           \* the file_ids whose file_path exists
    fm_issued,         \* file_ids uuid4() has given out
    fm_op,             \* the last FileManager operation
    fm_got,            \* the last get_file call: its file_id and result
    fm_none,           \* the file_ids get_file has returned None for
    fm_count,          \* what the last cleanup_expired call returned
    fallback_renderer,    \* fallback path: self.icon_renderer is not None
    fallback_icon,        \* fallback path: what the icon configuration holds
    fallback_colors,      \* fallback path: the extractor's appearance data
    fallback_subtype,     \* fallback path: the bid annotation's /Subtype
    fallback_pc,          \* fallback path: "idle", "fallback"
    fallback_changed,     \* the configuration changed during the conversion
    fallback_annot,       \* the single annotation emitted last
    icon_subject,         \* render_compound_icon: the subject
    icon_config,          \* render_compound_icon: what get_icon_config gave
    icon_image,           \* the configured image file exists
    icon_model_text,      \* what get_model_text gave for the subject
    icon_components       \* what render_compound_icon returned

assigner_vars == <<counters, calls, labels, resets, dirty>>

replacer_vars ==
    <<pc, runs, has_renderer, input_exists, total, annots, new_annots,
      converted_count, skipped_count, skipped_subjects,
      sequence_counter, sequence_iid, output_written, run_raised>>

concurrent_vars == <<replacers, id_assigners>>

\* The state of the other services.
group_vars == <<group_components, group_subject, group>>

rect_vars == <<raw_rect, out_rects>>

config_vars == <<icons, resolved_subject, resolved>>

layer_vars ==
    <<reference_pdf, applied, name_to_ref, layer_count, apply_result, writers,
      writer_ocproperties>>

loader_vars ==
    <<toolchest, bid_icons, deployment_icons, loaded, load_result, scanned>>

request_vars ==
    <<request_pc, request_status, request_error, request_extractor,
      request_classified, request_output, output_file>>

extractor_vars ==
    <<reference_document, appearances, extractor_loaded, extractor_result>>

io_vars == <<loader_vars, request_vars, extractor_vars>>

service_vars ==
    <<concurrent_vars, group_vars, rect_vars, config_vars, layer_vars,
      io_vars>>

store_vars ==
    <<store_files, store_pc, store_saves, store_previous, store_new,
      store_result, store_loaded>>

fm_vars ==
    <<fm_now, fm_files, fm_disk, fm_issued, fm_op, fm_got, fm_none,
      fm_count>>

fallback_vars ==
    <<fallback_renderer, fallback_icon, fallback_colors, fallback_subtype,
      fallback_pc, fallback_changed, fallback_annot>>

icon_vars ==
    <<icon_subject, icon_config, icon_image, icon_model_text,
      icon_components>>

\* The state of the services that keep files, of the fallback path and of
\* the icon renderer.
storage_vars == <<store_vars, fm_vars, fallback_vars, icon_vars>>

vars == <<assigner_vars, replacer_vars, service_vars, storage_vars>>

\* ------------------------------------------------------------------------
\* The fallback path of a conversion (replace_annotations lines 555-605)
\* ------------------------------------------------------------------------
\* DEFAULT_FILL_COLOR and DEFAULT_STROKE_COLOR, by name.
DEFAULT_FILL_COLOR == "navy"

DEFAULT_STROKE_COLOR == "black"

\* What the appearance extractor holds for the deployment subject: nothing,
\* or a fill and a stroke, each of which may be None.
NoAppearance == [has |-> FALSE, fill |-> "None", stroke |-> "None"]

AppearanceData ==
    {NoAppearance} \cup
    [has : {TRUE}, fill : {"None", "red"}, stroke : {"None", "green"}]

\* What get_icon_config and the gear icons directory hold for the subject:
\* no configuration, a configuration with no_image set, one without an
\* image_path, one whose image file is missing, one whose image file exists.
IconStates == {"none", "no_image", "no_path", "missing_file", "image"}

\* No single annotation has been emitted.
NoAnnotation ==
    [subtype |-> "none", ap |-> "none", ic |-> "absent", c |-> "absent",
     bs |-> "absent"]

\* AnnotationReplacer._get_colors_for_annotation: the extractor's colors
\* where it has them, the defaults otherwise.
get_colors_for_annotation(data) ==
    IF data.has
    THEN [fill   |-> IF data.fill # "None" THEN data.fill
                     ELSE DEFAULT_FILL_COLOR,
          stroke |-> IF data.stroke # "None" THEN data.stroke
                     ELSE DEFAULT_STROKE_COLOR]
    ELSE [fill |-> DEFAULT_FILL_COLOR, stroke |-> DEFAULT_STROKE_COLOR]

\* IconRenderer.can_render
can_render(icon) == icon = "image"

\* IconRenderer.render_icon: None without configuration, image_path or
\* image file.
render_icon(icon) ==
    IF icon \in {"none", "no_path", "missing_file"} THEN "None" ELSE "rich"

\* AnnotationReplacer._render_rich_icon
render_rich_icon(renderer, icon) ==
    IF ~renderer THEN "None"
    ELSE IF ~can_render(icon) THEN "None"
    ELSE render_icon(icon)

\* The /IC, /C and /BS entries _create_deployment_annotation_dict puts on
\* the annotation (lines 400-414): whatever appearance_ref is.
native_properties(appearance_ref, fill_color, stroke_color) ==
    [ic |-> fill_color, c |-> stroke_color, bs |-> "solid"]

\* The single annotation of the fallback path: _render_rich_icon, then
\* _create_simple_appearance if it returned None, then
\* _create_deployment_annotation_dict.
fallback_annotation(renderer, icon, data, annotation_type) ==
    LET colors == get_colors_for_annotation(data)
        rich == render_rich_icon(renderer, icon)
        appearance_ref == IF rich = "None" THEN "simple" ELSE rich
        native == native_properties(appearance_ref, colors.fill,
                                    colors.stroke)
    IN  [subtype |-> annotation_type,
         ap      |-> appearance_ref,
         ic      |-> native.ic,
         c       |-> native.c,
         bs      |-> native.bs]

\* The conversion requests in flight.
Requests == {1, 2}

\* A request before convert_pdf has constructed its replacer.
NoReplacer ==
    [ pc |-> "idle", total |-> 0, annots |-> <<>>, labels |-> <<>>,
      sequences |-> <<>>, sequence_counter |-> 0, sequence_iid |-> 0 ]

\* What can be at the reference path of a LayerManager: nothing, a document
\* without /OCProperties, one whose /OCProperties has no /OCGs, a document
\* that makes PdfReader raise, one whose /OCGs has an entry
\* that raises when read (after one entry that reads well), and two
\* documents with layers.
ReferencePdfs ==
    { "missing", "no_ocproperties", "no_ocgs", "unreadable", "bad_ocg",
      "layers_ap", "layers_power" }

\* The /Name of the entries of /OCGs of a reference document, in order
\* ("" for a layer without name; "raises" for an entry that cannot be read).
OCGs(pdf) ==
    CASE pdf = "layers_ap"    -> << "AP - Cisco MR36H", "" >>
      [] pdf = "layers_power" -> << "PWR - EcoFlow Battery" >>
      [] pdf = "bad_ocg"      -> << "PWR - EcoFlow Battery", "raises" >>
      [] OTHER                -> << >>

\* The .btx files a tool directory can hold.  A file is its name and what is
\* in it: whether its XML parses, and the subject in the Raw field of each
\* ToolChestItem in document order ("" for an item without subject).  The
\* first file is not well-formed XML after its first item.
BtxFiles ==
    { [ name |-> "CDS Bluebeam Power [01-01-2026].btx", parses |-> FALSE,
        items |-> << "PWR - EcoFlow Battery" >> ],
      [ name |-> "CDS Bluebeam Access Points [01-01-2026].btx",
        parses |-> TRUE, items |-> << "AP - Cisco MR36H", "" >> ],
      [ name |-> "CDS Bluebeam Switches.btx", parses |-> TRUE,
        items |-> << "SW - Cisco Micro 4P", "AP - Cisco MR36H" >> ] }

\* What directory.glob("*.btx") can return: files of the directory in any
\* order.
Listings ==
    { l \in UNION { [1..k -> BtxFiles] : k \in 0..MaxFiles } :
        \A i, j \in DOMAIN l : i # j => l[i] # l[j] }

\* A directory that does not exist, and one that holds the files of l.
NoDir == [exists |-> FALSE, files |-> <<>>]
Dir(l) == [exists |-> TRUE, files |-> l]

\* The file that does not parse, and the switches file.
BrokenFile == CHOOSE f \in BtxFiles : ~f.parses
SwitchFile == CHOOSE f \in BtxFiles : f.name = "CDS Bluebeam Switches.btx"
ApFile == CHOOSE f \in BtxFiles : f.parses /\ f # SwitchFile

\* What can be at toolchest_dir: nothing, or a directory in which bidTools
\* and deploymentTools are each absent or present.
MissingToolchest == [exists |-> FALSE, bid |-> NoDir, deployment |-> NoDir]
Toolchests ==
    { MissingToolchest } \cup
    { [exists |-> TRUE, bid |-> b, deployment |-> d] :
        b \in { NoDir } \cup { Dir(l) : l \in Listings },
        d \in { NoDir, Dir(<< BrokenFile, SwitchFile >>) } }

\* The annotations a reference document can hold: what annot.info and
\* annot.colors give for each ("" for no subject, "None" for no colour).
RefAnnots ==
    { [subject |-> "AP - Cisco MR36H", fill |-> "blue", stroke |-> "black"],
      [subject |-> "AP - Cisco MR36H", fill |-> "None", stroke |-> "red"],
      [subject |-> "SW - Cisco Micro 4P", fill |-> "None", stroke |-> "None"],
      [subject |-> "", fill |-> "blue", stroke |-> "black"] }

\* What can be at pdf_path: nothing, a file pymupdf.open raises on, or a
\* document with annotations.
ReferenceDocuments ==
    { [state |-> "missing", annots |-> <<>>],
      [state |-> "unreadable", annots |-> <<>>] } \cup
    { [state |-> "readable", annots |-> a] :
        a \in UNION { [1..k -> RefAnnots] : k \in 0..MaxRefAnnots } }

\* No load_from_pdf call has ended yet.
NoResult == [called |-> FALSE, raised |-> "", count |-> 0]

\* A file that does not exist, and a file into which the first `written`
\* of MaxChunks pieces of the JSON text of data have been written.
NoFile == [exists |-> FALSE, data |-> [icons |-> EmptyDict, rev |-> 0],
           written |-> 0]
FileOf(data, written) == [exists |-> TRUE, data |-> data, written |-> written]

\* {"_meta": {"version": 1}, "icons": {}}: what load() returns without a
\* readable file.  rev stands for _meta.last_modified (0: none).
EmptyDocument == [icons |-> EmptyDict, rev |-> 0]

\* AnnotationReplacer.__init__ (with its own IconIdAssigner), before any call.
Init ==
    /\ counters = FreshCounters
    /\ calls = <<>>
    /\ labels = <<>>
    /\ resets = 0
    /\ dirty = FALSE
    /\ pc = "idle"
    /\ runs = 0
    /\ has_renderer \in BOOLEAN
    /\ input_exists = FALSE
    /\ total = 0
    /\ annots = <<>>
    /\ new_annots = <<>>
    /\ converted_count = 0
    /\ skipped_count = 0
    /\ skipped_subjects = <<>>
    /\ sequence_counter = 0
    /\ sequence_iid = 0
    /\ output_written = FALSE
    /\ run_raised = FALSE
    /\ replacers = [ r \in Requests |-> NoReplacer ]
    /\ id_assigners = [ a \in Requests |-> FreshCounters ]
    /\ group_components = <<>>
    /\ group_subject = ""
    /\ group = <<>>
    /\ raw_rect = <<0, 0, 0, 0>>
    /\ out_rects = <<>>
    /\ icons = EmptyDict
    /\ resolved_subject = ""
    /\ resolved = EmptyDict
    /\ reference_pdf = "layers_ap"
    /\ writer_ocproperties = FALSE
    /\ applied = FALSE
    /\ name_to_ref = EmptyDict
    /\ layer_count = 0
    /\ apply_result = "none"
    /\ writers = 0
    /\ toolchest = [exists |-> TRUE, bid |-> Dir(<< ApFile >>),
                    deployment |-> Dir(<< BrokenFile, SwitchFile >>)]
    /\ bid_icons = EmptyDict
    /\ deployment_icons = EmptyDict
    /\ loaded = FALSE
    /\ load_result = "none"
    /\ scanned = MissingToolchest
    /\ request_pc = "idle"
    /\ request_status = 0
    /\ request_error = ""
    /\ request_extractor = "None"
    /\ request_classified = 0
    /\ request_output = FALSE
    /\ output_file = FALSE
    /\ reference_document = [state |-> "readable", annots |-> <<>>]
    /\ appearances = EmptyDict
    /\ extractor_loaded = FALSE
    /\ extractor_result = NoResult
    /\ store_files = [f \in {"json", "tmp"} |-> NoFile]
    /\ store_pc = "idle"
    /\ store_saves = 0
    /\ store_previous = EmptyDocument
    /\ store_new = EmptyDocument
    /\ store_result = "none"
    /\ store_loaded = [data |-> EmptyDocument, save |-> 0, after |-> "none"]
    /\ fm_now = 0
    /\ fm_files = EmptyDict
    /\ fm_disk = {}
    /\ fm_issued = 0
    /\ fm_op = "init"
    /\ fm_got = [file_id |-> 0, found |-> FALSE]
    /\ fm_none = {}
    /\ fm_count = 0
    /\ fallback_renderer = FALSE
    /\ fallback_icon = "none"
    /\ fallback_colors = NoAppearance
    /\ fallback_subtype = "/Circle"
    /\ fallback_pc = "idle"
    /\ fallback_changed = FALSE
    /\ fallback_annot = NoAnnotation
    /\ icon_subject = ""
    /\ icon_config = NoIconConfig
    /\ icon_image = FALSE
    /\ icon_model_text = ""
    /\ icon_components = <<>>

\* ------------------------------------------------------------------------
\* Direct use of an IconIdAssigner
\* ------------------------------------------------------------------------
\* assigner.get_next_id(s)
CallGetNextId ==
    /\ Len(calls) < MaxCalls
    /\ \E s \in DeploymentSubjects :
         LET r == get_next_id(counters, s)
         IN  /\ counters' = r.counters
             /\ calls' = Append(calls, s)
             /\ labels' = Append(labels, r.label)
    /\ UNCHANGED <<resets, dirty, replacer_vars, service_vars, storage_vars>>

\* assigner.reset()
CallReset ==
    /\ resets < MaxResets
    /\ counters' = reset(counters)
    /\ calls' = <<>>
    /\ labels' = <<>>
    /\ resets' = resets + 1
    /\ dirty' = (DOMAIN counters # {})
    /\ UNCHANGED <<replacer_vars, service_vars, storage_vars>>

NextAssigner == CallGetNextId \/ CallReset

SpecAssigner == Init /\ [][NextAssigner]_vars

\* ------------------------------------------------------------------------
\* AnnotationReplacer.replace_annotations
\* ------------------------------------------------------------------------
\* The entry of the rebuilt array that is the original reference at idx.
OrigRef(idx) == [kind |-> "orig", ref |-> idx]

\* An element of skipped_subjects: a bid subject, or
\* f"(error at index {idx})".
SubjectTag(bid_subject) == [text |-> bid_subject, index |-> -1]
ErrorTag(idx) == [text |-> "(error at index)", index |-> idx]

\* A mutation of missing_input: a missing input raises.
missing_input_raises == [raised |-> TRUE, result |-> <<0, 0, <<>>>>]

\* Lines 464-466: logger.error(...) and return 0, 0, [].
missing_input == [raised |-> FALSE, result |-> <<0, 0, <<>>>>]

\* Lines 455-490: the counters are reset, then a missing input returns
\* (0, 0, []) at once; otherwise the pages are copied and the loop starts.
\* A page without entries is skipped (lines 483-488), the output is written
\* and (0, 0, []) is returned.  The fresh uuid of the run is modelled by the
\* number of the run.
StartRun ==
    /\ pc \in {"idle", "done"}
    /\ runs < MaxRuns
    /\ runs' = runs + 1
    /\ converted_count' = 0
    /\ skipped_count' = 0
    /\ skipped_subjects' = <<>>
    /\ counters' = reset(counters)
    /\ calls' = <<>>
    /\ labels' = <<>>
    /\ dirty' = (DOMAIN counters # {})
    /\ sequence_counter' = 0
    /\ sequence_iid' = runs + 1
    /\ annots' = <<>>
    /\ new_annots' = <<>>
    /\ \E ex \in BOOLEAN, n \in 0..(IF runs = 0 THEN MaxAnnots ELSE MaxAnnotsRerun) :
         /\ input_exists' = ex
         /\ total' = IF ex THEN n ELSE 0
         /\ pc' = IF ex /\ n > 0 THEN "loop" ELSE "done"
         /\ output_written' = (ex /\ n = 0)
         /\ run_raised' = IF ex THEN FALSE ELSE missing_input.raised
    /\ UNCHANGED <<resets, has_renderer, service_vars, storage_vars>>

\* The loop is at an entry.
AtEntry == pc = "loop" /\ Len(annots) < total

\* Index of the entry the loop is at (enumerate counts from 0).
Idx == Len(annots)

\* What every branch leaves alone, and lines 614-629 after the last entry:
\* the page's array is replaced by the rebuilt one, the output is written
\* and the counts are returned.
LoopFrame ==
    /\ pc' = IF Len(annots) + 1 = total THEN "done" ELSE "loop"
    /\ output_written' = (Len(annots) + 1 = total)
    /\ UNCHANGED <<runs, has_renderer, input_exists, total, resets, dirty,
                   sequence_iid, run_raised, service_vars, storage_vars>>

NoIdUse == UNCHANGED <<counters, calls, labels>>

\* A mutation of IsDroppedChild: only children of convertible subtype are
\* dropped.
IsDroppedChild_convertible_only(e) ==
    /\ e.irt
    /\ get_deployment_subject(e.subj) # None
    /\ e.subtype \in CONVERTIBLE_SUBTYPES

\* Line 517: annot.get("/IRT") is not None and deployment_subject
IsDroppedChild(e) == e.irt /\ get_deployment_subject(e.subj) # None

\* Lines 499-503: legend and gear list annotations are not appended.
Delete(e) ==
    /\ AtEntry
    /\ e.fault # "deref"
    /\ IsLegend(e.subj)
    /\ annots' = Append(annots, e)
    /\ UNCHANGED <<new_annots, converted_count, skipped_count,
                   skipped_subjects, sequence_counter>>
    /\ NoIdUse /\ LoopFrame

\* Lines 505-508: annotations without a subject are kept.
PreserveNoSubject(e) ==
    /\ AtEntry
    /\ e.fault # "deref"
    /\ ~IsLegend(e.subj)
    /\ e.subj = ""
    /\ annots' = Append(annots, e)
    /\ new_annots' = Append(new_annots, OrigRef(Idx))
    /\ UNCHANGED <<converted_count, skipped_count, skipped_subjects,
                   sequence_counter>>
    /\ NoIdUse /\ LoopFrame

\* Lines 510-519: a child with a mapped subject is not appended.
DropChild(e) ==
    /\ AtEntry
    /\ e.fault # "deref"
    /\ ~IsLegend(e.subj)
    /\ e.subj # ""
    /\ IsDroppedChild(e)
    /\ annots' = Append(annots, e)
    /\ UNCHANGED <<new_annots, converted_count, skipped_count,
                   skipped_subjects, sequence_counter>>
    /\ NoIdUse /\ LoopFrame

\* Lines 521-525: other subtypes are kept.
PreserveSubtype(e) ==
    /\ AtEntry
    /\ e.fault # "deref"
    /\ ~IsLegend(e.subj)
    /\ e.subj # ""
    /\ ~IsDroppedChild(e)
    /\ e.subtype \notin CONVERTIBLE_SUBTYPES
    /\ annots' = Append(annots, e)
    /\ new_annots' = Append(new_annots, OrigRef(Idx))
    /\ UNCHANGED <<converted_count, skipped_count, skipped_subjects,
                   sequence_counter>>
    /\ NoIdUse /\ LoopFrame

\* A mutation of record_skip: the subject is not recorded.
record_skip_silent(subjects, tag) == subjects

\* skipped_subjects.append(...)
record_skip(subjects, tag) == Append(subjects, tag)

\* Lines 527-533: no mapping; counted as skipped and kept.
SkipNoMapping(e) ==
    /\ AtEntry
    /\ e.fault # "deref"
    /\ ~IsLegend(e.subj)
    /\ e.subj # ""
    /\ ~IsDroppedChild(e)
    /\ e.subtype \in CONVERTIBLE_SUBTYPES
    /\ get_deployment_subject(e.subj) = None
    /\ annots' = Append(annots, e)
    /\ skipped_count' = skipped_count + 1
    /\ skipped_subjects' = record_skip(skipped_subjects, SubjectTag(e.subj))
    /\ new_annots' = Append(new_annots, OrigRef(Idx))
    /\ UNCHANGED <<converted_count, sequence_counter>>
    /\ NoIdUse /\ LoopFrame

\* A mutation of invalid_rect_skips: an invalid rectangle is not counted.
invalid_rect_skips_uncounted(n) == n

\* Line 540: skipped_count += 1 for an invalid rectangle
invalid_rect_skips(n) == n + 1

\* Lines 536-543: invalid rectangle; counted as skipped and kept.
SkipInvalidRect(e) ==
    /\ AtEntry
    /\ ReachesConvert(e)
    /\ e.rect = "invalid"
    /\ annots' = Append(annots, e)
    /\ skipped_count' = invalid_rect_skips(skipped_count)
    /\ skipped_subjects' = record_skip(skipped_subjects, SubjectTag(e.subj))
    /\ new_annots' = Append(new_annots, OrigRef(Idx))
    /\ UNCHANGED <<converted_count, sequence_counter>>
    /\ NoIdUse /\ LoopFrame

\* Line 550: self.id_assigner.get_next_id(deployment_subject) or ""
IdLabel(r) == IF r.label = NoLabel THEN EmptyLabel ELSE r.label

\* Lines 556-560: components is None without a renderer.
Components(deployment_subject, id_label) ==
    IF has_renderer THEN render_compound_icon(deployment_subject, id_label)
    ELSE <<>>

\* A mutation of emit: the generated annotations are put in front of the
\* array.
emit_in_front(array, refs, idx) == refs \o array

\* A mutation of emit: the original reference is kept next to the
\* generated annotations.
emit_keeps_original(array, refs, idx) == Append(array \o refs, OrigRef(idx))

\* Lines 567 and 603: the generated annotations replace the entry at idx.
emit(array, refs, idx) == array \o refs

\* Lines 545-572: identifier, compound rendering, group of annotations.
ConvertCompound(e) ==
    /\ AtEntry
    /\ ReachesConvert(e)
    /\ e.rect = "ok"
    /\ e.fault = "none"
    /\ LET dep == get_deployment_subject(e.subj)
           r == get_next_id(counters, dep)
           components == Components(dep, IdLabel(r))
       IN  /\ components # <<>>
           /\ counters' = r.counters
           /\ calls' = Append(calls, dep)
           /\ labels' = Append(labels, r.label)
           /\ new_annots' = emit(new_annots,
                  create_compound_annotation_group(
                      components, dep, Idx, sequence_iid, sequence_counter),
                  Idx)
           /\ sequence_counter' = sequence_counter + 1
    /\ annots' = Append(annots, e)
    /\ converted_count' = converted_count + 1
    /\ UNCHANGED <<skipped_count, skipped_subjects>>
    /\ LoopFrame

\* Lines 573-605: single annotation when there are no components.
ConvertSingle(e) ==
    /\ AtEntry
    /\ ReachesConvert(e)
    /\ e.rect = "ok"
    /\ e.fault = "none"
    /\ LET dep == get_deployment_subject(e.subj)
           r == get_next_id(counters, dep)
           components == Components(dep, IdLabel(r))
       IN  /\ components = <<>>
           /\ counters' = r.counters
           /\ calls' = Append(calls, dep)
           /\ labels' = Append(labels, r.label)
           /\ new_annots' = emit(new_annots,
                  << create_deployment_annotation_dict(dep, e.subtype, Idx) >>,
                  Idx)
    /\ annots' = Append(annots, e)
    /\ converted_count' = converted_count + 1
    /\ UNCHANGED <<skipped_count, skipped_subjects, sequence_counter>>
    /\ LoopFrame

\* A mutation of on_exception: the original reference is lost.
on_exception_drops(array, idx) == array

\* Line 612: new_annots.append(annot_ref) in the except branch
on_exception(array, idx) == Append(array, OrigRef(idx))

\* Lines 607-612: an exception anywhere in the try block.  An unreadable
\* entry and a /Rect that float() rejects raise before the identifier
\* lookup.  An exception of a later step (rendering, group construction,
\* fallback construction) comes after the identifier lookup; in
\* _create_compound_annotation_group it comes before or after the root has
\* taken its sequence index.
ErrorPreserve(e) ==
    /\ AtEntry
    /\ \/ /\ \/ e.fault = "deref"
             \/ ReachesConvert(e) /\ e.rect = "raises"
          /\ NoIdUse
          /\ UNCHANGED sequence_counter
       \/ /\ ReachesConvert(e) /\ e.rect = "ok" /\ e.fault = "convert"
          /\ LET dep == get_deployment_subject(e.subj)
                 r == get_next_id(counters, dep)
                 components == Components(dep, IdLabel(r))
             IN  /\ counters' = r.counters
                 /\ calls' = Append(calls, dep)
                 /\ labels' = Append(labels, r.label)
                 /\ \/ sequence_counter' = sequence_counter
                    \/ /\ components # <<>>
                       /\ sequence_counter' = sequence_counter + 1
    /\ annots' = Append(annots, e)
    /\ skipped_count' = skipped_count + 1
    /\ skipped_subjects' = Append(skipped_subjects, ErrorTag(Idx))
    /\ new_annots' = on_exception(new_annots, Idx)
    /\ UNCHANGED converted_count
    /\ LoopFrame

Next ==
    \/ StartRun
    \/ \E e \in Entries : Delete(e)
    \/ \E e \in Entries : PreserveNoSubject(e)
    \/ \E e \in Entries : DropChild(e)
    \/ \E e \in Entries : PreserveSubtype(e)
    \/ \E e \in Entries : SkipNoMapping(e)
    \/ \E e \in Entries : SkipInvalidRect(e)
    \/ \E e \in Entries : ConvertCompound(e)
    \/ \E e \in Entries : ConvertSingle(e)
    \/ \E e \in Entries : ErrorPreserve(e)

Spec == Init /\ [][Next]_vars

\* ------------------------------------------------------------------------
\* Two conversion requests in flight (convert_pdf)
\* ------------------------------------------------------------------------
\* A mutation of id_assigner_of: one assigner for the whole process.
id_assigner_of_process_wide(r) == 1

\* self.id_assigner = IconIdAssigner() in AnnotationReplacer.__init__, which
\* convert_pdf calls once per request: the assigner object of request r.
id_assigner_of(r) == r

\* The pages the requests convert: an entry, and for an entry whose
\* conversion raises whether the exception comes after the root of the group
\* has taken its sequence index (late).
ConcurrentItems ==
    { it \in [ e : Entries, late : BOOLEAN ] :
        /\ it.e.subtype = "/Circle" /\ ~it.e.irt /\ it.e.rect = "ok"
        /\ it.e.subj \in { "Artist - Indoor Wi-Fi Access Point",
                           "Bid - Battery", "Unmapped - Widget" }
        /\ (it.late => ( /\ it.e.fault = "convert"
                         /\ it.e.subj = "Artist - Indoor Wi-Fi Access Point" )) }

\* One pass of the loop body (lines 493-612) as far as the identifier
\* assigner and the sequence counter are concerned: the counters and the
\* sequence counter after the entry, the label looked up (if any) and the
\* sequence descriptor of the root emitted (if any).
process_entry(c, seqc, iid, it) ==
    IF ~(ReachesConvert(it.e) /\ it.e.rect = "ok")
    THEN [ counters |-> c, sequence_counter |-> seqc,
           labels |-> <<>>, sequences |-> <<>> ]
    ELSE LET dep == get_deployment_subject(it.e.subj)
             r == get_next_id(c, dep)
             components == Components(dep, IdLabel(r))
         IN  [ counters |-> r.counters,
               labels |-> << IdLabel(r) >>,
               sequences |->
                   IF it.e.fault = "none" /\ components # <<>>
                   THEN << <<iid, seqc>> >> ELSE <<>>,
               sequence_counter |->
                   IF components # <<>> /\ (it.e.fault = "none" \/ it.late)
                   THEN seqc + 1 ELSE seqc ]

\* convert_pdf lines 101-116 and replace_annotations lines 455-490 for
\* request r: a new replacer, whose run resets its assigner and its sequence
\* counter and draws the run id (modelled by the request).
ConvertPdfStart(r) ==
    /\ replacers[r].pc = "idle"
    /\ \E n \in 0..MaxAnnotsConcurrent :
         replacers' = [ replacers EXCEPT ![r] =
             [ NoReplacer EXCEPT !.pc = IF n > 0 THEN "loop" ELSE "done",
                                 !.total = n,
                                 !.sequence_iid = r ] ]
    /\ id_assigners' =
           [ id_assigners EXCEPT ![id_assigner_of(r)] = reset(@) ]
    /\ UNCHANGED <<assigner_vars, replacer_vars, storage_vars, io_vars, group_vars, rect_vars,
                   config_vars, layer_vars>>

\* Request r processes the next entry of its page.
ConvertPdfEntry(r) ==
    /\ replacers[r].pc = "loop"
    /\ \E it \in ConcurrentItems :
         LET me == replacers[r]
             a == id_assigner_of(r)
             p == process_entry(id_assigners[a], me.sequence_counter,
                                me.sequence_iid, it)
         IN  /\ id_assigners' = [ id_assigners EXCEPT ![a] = p.counters ]
             /\ replacers' = [ replacers EXCEPT ![r] =
                    [ me EXCEPT
                        !.annots = Append(@, it),
                        !.labels = @ \o p.labels,
                        !.sequences = @ \o p.sequences,
                        !.sequence_counter = p.sequence_counter,
                        !.pc = IF Len(me.annots) + 1 = me.total
                               THEN "done" ELSE "loop" ] ]
    /\ UNCHANGED <<assigner_vars, replacer_vars, storage_vars, io_vars, group_vars, rect_vars,
                   config_vars, layer_vars>>

NextConcurrent ==
    \/ \E r \in Requests : ConvertPdfStart(r)
    \/ \E r \in Requests : ConvertPdfEntry(r)

SpecConcurrent == Init /\ [][NextConcurrent]_vars

\* ------------------------------------------------------------------------
\* A compound group on its own (render_compound_icon, then
\* _create_compound_annotation_group)
\* ------------------------------------------------------------------------
\* render_compound_icon for a configured subject, with any configuration
\* flags and with or without an identifier.
RenderCompoundIcon ==
    /\ \E flags \in ComponentFlags, subject \in IconConfigSubjects :
         /\ group_subject' = subject
         /\ group_components' =
                compound_components(flags,
                    IdLabel(get_next_id(FreshCounters, subject)))
    /\ group' = <<>>
    /\ UNCHANGED <<assigner_vars, replacer_vars, storage_vars, io_vars, concurrent_vars, rect_vars,
                   config_vars, layer_vars>>

\* _create_compound_annotation_group on the components rendered.
CreateCompoundGroup ==
    /\ group_components # <<>>
    /\ \E src \in 0..1, iid \in 1..2, counter \in 0..MaxGroupIndex :
         group' = create_compound_annotation_group(
                      group_components, group_subject, src, iid, counter)
    /\ UNCHANGED <<group_components, group_subject>>
    /\ UNCHANGED <<assigner_vars, replacer_vars, storage_vars, io_vars, concurrent_vars, rect_vars,
                   config_vars, layer_vars>>

NextGroup == RenderCompoundIcon \/ CreateCompoundGroup

SpecGroup == Init /\ [][NextGroup]_vars

\* ------------------------------------------------------------------------
\* Rectangles of a conversion (replace_annotations lines 535-576,
\* _compute_component_rects).  Lengths are in 1/1000 point, canonical
\* lengths of the 25 x 30 icon space in 1/10 canonical unit.
\* ------------------------------------------------------------------------
\* STANDARD_ICON_SIZE = 14.6
STANDARD_ICON_SIZE == 14600

\* CANON_W, CANON_H = 25.0, 30.0
CANON_W == 250
CANON_H == 300

\* COMPOUND_RENDER_SCALE = 1.12: 1/1000 point per 1/10 canonical unit
COMPOUND_RENDER_SCALE == 112

\* /Rect values [x0, y0, x1, y1] of the annotations converted (x0 + x1 and
\* y0 + y1 even): squares of 14.6, 50 and 75 points and rectangles of 28 and
\* 33.6 points at three places of the page.
RawRects ==
    { <<x, y, x + w, y + h>> :
        x \in {0, 100000, 150500}, y \in {0, 200000},
        w \in {14600, 28000, 50000, 75000}, h \in {14600, 33600, 50000} }

\* A mutation of center: the lower left corner.
center_is_origin(rect) == [cx |-> rect[1], cy |-> rect[2]]

\* Lines 545-547: cx = (raw_rect[0] + raw_rect[2]) / 2, cy alike
center(rect) ==
    [cx |-> (rect[1] + rect[3]) \div 2, cy |-> (rect[2] + rect[4]) \div 2]

\* Lines 575-576: rect = [cx - half, cy - half, cx + half, cy + half]
fallback_rect(c) ==
    LET half == STANDARD_ICON_SIZE \div 2
    IN  << c.cx - half, c.cy - half, c.cx + half, c.cy + half >>

\* to_page_rect of _compute_component_rects, for the icon centred at c.
to_page_rect(c, c_x1, c_y1, c_w, c_h) ==
    LET ox == c.cx - (CANON_W * COMPOUND_RENDER_SCALE) \div 2
        oy == c.cy - (CANON_H * COMPOUND_RENDER_SCALE) \div 2
    IN  << ox + c_x1 * COMPOUND_RENDER_SCALE,
           oy + c_y1 * COMPOUND_RENDER_SCALE,
           ox + (c_x1 + c_w) * COMPOUND_RENDER_SCALE,
           oy + (c_y1 + c_h) * COMPOUND_RENDER_SCALE >>

Min(a, b) == IF a <= b THEN a ELSE b

\* _compute_component_rects for the container and the circle, with the
\* id_box_height of the configuration (2.3 for access points and power,
\* 3.5 for switches) and id_box_y_offset 0.
compute_component_rects(c, id_box_height) ==
    LET canon_cx == CANON_W \div 2
        id_box_y1 == CANON_H - id_box_height
        circle_top == id_box_y1 + 20
        radius == Min(CANON_W, circle_top) \div 2 - 3
        canon_cy == circle_top - radius
    IN  [ container |-> to_page_rect(c, 0, 0, CANON_W, CANON_H),
          circle |-> to_page_rect(c, canon_cx - radius, canon_cy - radius,
                                  2 * radius, 2 * radius) ]

\* The annotation to convert is read.
ReadRect ==
    /\ \E rect \in RawRects : raw_rect' = rect
    /\ out_rects' = <<>>
    /\ UNCHANGED <<assigner_vars, replacer_vars, storage_vars, io_vars, concurrent_vars, group_vars,
                   config_vars, layer_vars>>

\* Lines 556-567: the rectangles of the compound group.
ConvertRectCompound ==
    /\ raw_rect \in RawRects
    /\ \E id_box_height \in {23, 35} :
         LET rects == compute_component_rects(center(raw_rect), id_box_height)
         IN  out_rects' = << [role |-> "container", rect |-> rects.container],
                             [role |-> "circle", rect |-> rects.circle] >>
    /\ UNCHANGED raw_rect
    /\ UNCHANGED <<assigner_vars, replacer_vars, storage_vars, io_vars, concurrent_vars, group_vars,
                   config_vars, layer_vars>>

\* Lines 573-605: the rectangle of the single fallback annotation.
ConvertRectSingle ==
    /\ raw_rect \in RawRects
    /\ out_rects' =
           << [role |-> "single", rect |-> fallback_rect(center(raw_rect))] >>
    /\ UNCHANGED raw_rect
    /\ UNCHANGED <<assigner_vars, replacer_vars, storage_vars, io_vars, concurrent_vars, group_vars,
                   config_vars, layer_vars>>

NextRect == ReadRect \/ ConvertRectCompound \/ ConvertRectSingle

SpecRect == Init /\ [][NextRect]_vars

\* ------------------------------------------------------------------------
\* Icon style resolution (icon_config.get_icon_config) over the persisted
\* overrides (IconOverrideStore) as the tuner routes write them.
\* A configuration is a dict: a function from the fields it defines to their
\* values, all written as strings.
\* ------------------------------------------------------------------------
\* ICON_CATEGORIES, for the two subjects the conversion produces.
ICON_CATEGORIES ==
    [ s \in IconConfigSubjects |->
        IF s = "AP - Cisco MR36H" THEN "APs" ELSE "Power" ]

\* The style fields followed: one that only the category defaults define,
\* one that a hard-coded override redefines for the access point, and one
\* that a hard-coded override redefines for the battery.
StyleFields == { "circle_color", "img_scale_ratio", "brand_text" }

CATEGORY_DEFAULTS ==
    [ c \in {"APs", "Power", "Misc"} |->
        [ f \in StyleFields |->
            CASE f = "circle_color" ->
                     (IF c = "APs" THEN "navy"
                      ELSE IF c = "Power" THEN "brown" ELSE "grey")
              [] f = "img_scale_ratio" -> "0.70"
              [] f = "brand_text" -> (IF c = "APs" THEN "CISCO" ELSE "") ] ]

ICON_OVERRIDES ==
    [ s \in IconConfigSubjects |->
        IF s = "AP - Cisco MR36H"
        THEN [ f \in {"img_scale_ratio"} |-> "0.64" ]
        ELSE [ f \in {"brand_text"} |-> "ECOFLOW" ] ]

ICON_IMAGE_PATHS ==
    [ s \in IconConfigSubjects |->
        IF s = "AP - Cisco MR36H"
        THEN "APs/AP - Cisco MR36H.png" ELSE "Misc/EcoFlow Battery.png" ]

\* dict.update: base with the entries of over on top
update(base, over) ==
    [ f \in (DOMAIN base) \cup (DOMAIN over) |->
        IF f \in DOMAIN over THEN over[f] ELSE base[f] ]

\* dict.setdefault(f, v)
setdefault(base, f, v) ==
    IF f \in DOMAIN base THEN base ELSE DictSet(base, f, v)

\* Lines 786-800 of get_icon_config: category defaults, then the per-icon
\* overrides, then image_path and category; {} without category.
python_config(subject) ==
    IF subject \notin DOMAIN ICON_CATEGORIES THEN EmptyDict
    ELSE LET category == ICON_CATEGORIES[subject]
             config == update(CATEGORY_DEFAULTS[category], ICON_OVERRIDES[subject])
         IN  DictSet(DictSet(config, "image_path", ICON_IMAGE_PATHS[subject]),
                     "category", category)

\* A mutation of get_icon_config: the persisted entry is ignored.
get_icon_config_python_only(store, subject) == python_config(subject)

\* get_icon_config on the persisted icons store: a non-empty persisted
\* entry is returned as it is, else the Python configuration.
get_icon_config(store, subject) ==
    IF subject \in DOMAIN store /\ store[subject] # EmptyDict
    THEN store[subject]
    ELSE python_config(subject)

\* IconOverrideStore.build_full_config
build_full_config(store, subject, partial) ==
    LET existing_json ==
            IF subject \in DOMAIN store THEN store[subject] ELSE EmptyDict
        python == get_icon_config(store, subject)
        base == IF existing_json # EmptyDict THEN existing_json
                ELSE IF python # EmptyDict THEN python
                ELSE DictSet(DictSet(CATEGORY_DEFAULTS["Misc"],
                                     "category", "Misc"),
                             "image_path", None)
    IN  update(setdefault(base, "no_id_box", "False"), partial)

\* The subjects resolved: two with a category, one without.
ConfigSubjects == IconConfigSubjects \cup { "AP_Deploy" }

\* The partial configurations written: one field, or two fields.
PartialConfigs ==
    { [ f \in {"img_scale_ratio"} |-> "0.90" ],
      [ f \in {"circle_color", "brand_text"} |->
          IF f = "circle_color" THEN "red" ELSE "ACME" ] }

\* IconOverrideStore.set_icon(subject, config) with the config given
\* (the JSON file holds what the caller passes).
SetIcon ==
    /\ \E subject \in ConfigSubjects, config \in PartialConfigs :
         icons' = DictSet(icons, subject, config)
    /\ UNCHANGED <<resolved_subject, resolved>>
    /\ UNCHANGED <<assigner_vars, replacer_vars, storage_vars, io_vars, concurrent_vars, group_vars,
                   rect_vars, layer_vars>>

\* PUT /icons/{subject} of the tuner: build_full_config, then set_icon.
SaveIcon ==
    /\ \E subject \in ConfigSubjects, partial \in PartialConfigs :
         icons' = DictSet(icons, subject,
                          build_full_config(icons, subject, partial))
    /\ UNCHANGED <<resolved_subject, resolved>>
    /\ UNCHANGED <<assigner_vars, replacer_vars, storage_vars, io_vars, concurrent_vars, group_vars,
                   rect_vars, layer_vars>>

\* IconOverrideStore.delete_icon(subject)
DeleteIcon ==
    /\ \E subject \in DOMAIN icons :
         icons' = [ t \in (DOMAIN icons) \ {subject} |-> icons[t] ]
    /\ UNCHANGED <<resolved_subject, resolved>>
    /\ UNCHANGED <<assigner_vars, replacer_vars, storage_vars, io_vars, concurrent_vars, group_vars,
                   rect_vars, layer_vars>>

\* get_icon_config(subject)
GetIconConfig ==
    /\ \E subject \in ConfigSubjects :
         /\ resolved_subject' = subject
         /\ resolved' = get_icon_config(icons, subject)
    /\ UNCHANGED icons
    /\ UNCHANGED <<assigner_vars, replacer_vars, storage_vars, io_vars, concurrent_vars, group_vars,
                   rect_vars, layer_vars>>

NextConfig == SetIcon \/ SaveIcon \/ DeleteIcon \/ GetIconConfig

SpecConfig == Init /\ [][NextConfig]_vars

\* ------------------------------------------------------------------------
\* LayerManager (app/services/layer_manager.py)
\* ------------------------------------------------------------------------
\* The return value None of get_ocg_ref.
NoRef == [writer |-> 0, name |-> "None"]

\* The cloned OCG object named name in writer w.
OcgRef(w, name) == [writer |-> w, name |-> name]

\* Lines 88-93: the lookup built from the first n entries of ocgs, for the
\* clone in writer w (entries without /Name are left out).
NameTable(w, ocgs, n) ==
    [ name \in { ocgs[i] : i \in 1..n } \ { "" } |-> OcgRef(w, name) ]

\* A mutation of early_return: a failing call marks the manager not loaded.
early_return_unloads(was_applied) == FALSE

\* Lines 62-64, 71-73 and 84-86: return False; _applied is not assigned.
early_return(was_applied) == was_applied

\* LayerManager.get_ocg_ref
get_ocg_ref(deployment_subject) ==
    IF ~applied THEN NoRef
    ELSE IF deployment_subject \in DOMAIN name_to_ref
         THEN name_to_ref[deployment_subject] ELSE NoRef

\* The reference document is replaced, removed or put back between calls.
ChangeReferencePdf ==
    /\ \E pdf \in ReferencePdfs : pdf # reference_pdf /\ reference_pdf' = pdf
    /\ UNCHANGED <<applied, name_to_ref, layer_count, apply_result, writers,
                   writer_ocproperties>>
    /\ UNCHANGED <<assigner_vars, replacer_vars, storage_vars, io_vars, concurrent_vars, group_vars,
                   rect_vars, config_vars>>

\* LayerManager.apply_to_writer(writer) on a new writer.
ApplyToWriter ==
    /\ writers < MaxWriters
    /\ writers' = writers + 1
    /\ LET w == writers + 1
           ocgs == OCGs(reference_pdf)
       IN  CASE reference_pdf \in {"missing", "no_ocproperties", "no_ocgs"} ->
                  /\ apply_result' = "False"
                  /\ applied' = early_return(applied)
                  /\ writer_ocproperties' = (reference_pdf = "no_ocgs")
                  /\ UNCHANGED <<name_to_ref, layer_count>>
             [] reference_pdf = "unreadable" ->
                  /\ apply_result' = "False"
                  /\ applied' = FALSE
                  /\ writer_ocproperties' = FALSE
                  /\ UNCHANGED <<name_to_ref, layer_count>>
             [] reference_pdf = "bad_ocg" ->
                  /\ apply_result' = "False"
                  /\ applied' = FALSE
                  /\ writer_ocproperties' = TRUE
                  /\ name_to_ref' = NameTable(w, ocgs, 1)
                  /\ UNCHANGED layer_count
             [] OTHER ->
                  /\ apply_result' = "True"
                  /\ applied' = TRUE
                  /\ writer_ocproperties' = TRUE
                  /\ name_to_ref' = NameTable(w, ocgs, Len(ocgs))
                  /\ layer_count' = Len(ocgs)
    /\ UNCHANGED reference_pdf
    /\ UNCHANGED <<assigner_vars, replacer_vars, storage_vars, io_vars, concurrent_vars, group_vars,
                   rect_vars, config_vars>>

NextLayers == ChangeReferencePdf \/ ApplyToWriter

SpecLayers == Init /\ [][NextLayers]_vars

\* ------------------------------------------------------------------------
\* BTXReferenceLoader (app/services/btx_loader.py)
\* ------------------------------------------------------------------------
\* _extract_category_from_filename: the name without ".btx", without the
\* prefix "CDS Bluebeam " and without a trailing date in brackets.
extract_category_from_filename(filename) ==
    CASE filename = "CDS Bluebeam Power [01-01-2026].btx" -> "Power"
      [] filename = "CDS Bluebeam Access Points [01-01-2026].btx" ->
             "Access Points"
      [] filename = "CDS Bluebeam Switches.btx" -> "Switches"
      [] OTHER -> filename

\* _parse_btx_file: the whole document is parsed before any item is read
\* (line 149); XML that is not well-formed raises ValueError (lines 158-159).
parse_btx_file(file) ==
    IF file.parses THEN [raised |-> FALSE, items |-> file.items]
    ELSE [raised |-> TRUE, items |-> <<>>]

\* The IconData built for an item of a file (lines 382-396).
IconData(subject, file) ==
    [ subject |-> subject,
      category |-> extract_category_from_filename(file.name),
      source_file |-> file.name ]

\* A mutation of load_items: a later item with a subject of the table
\* replaces the record.
load_items_last_wins(items, file, target_dict) ==
    LET subjects == { items[i] : i \in DOMAIN items } \ {""}
    IN  [ subject \in (DOMAIN target_dict) \cup subjects |->
            IF subject \in subjects THEN IconData(subject, file)
            ELSE target_dict[subject] ]

\* Lines 366-399: the items of one file, in order; an item without subject
\* and a subject that is in the table already are skipped.
RECURSIVE load_items(_, _, _)
load_items(items, file, target_dict) ==
    IF items = <<>> THEN target_dict
    ELSE LET subject == Head(items)
         IN  IF subject = "" \/ subject \in DOMAIN target_dict
             THEN load_items(Tail(items), file, target_dict)
             ELSE load_items(Tail(items), file,
                             DictSet(target_dict, subject,
                                     IconData(subject, file)))

RECURSIVE load_btx_directory(_, _)

\* A mutation of after_file_error: the scan ends at the file that raised.
after_file_error_break(btx_files, target_dict) == target_dict

\* Lines 401-403: except Exception ... continue.
after_file_error(btx_files, target_dict) ==
    load_btx_directory(btx_files, target_dict)

\* _load_btx_directory over the files glob returned, into target_dict.
load_btx_directory(btx_files, target_dict) ==
    IF btx_files = <<>> THEN target_dict
    ELSE LET file == Head(btx_files)
             parsed == parse_btx_file(file)
         IN  IF parsed.raised
             THEN after_file_error(Tail(btx_files), target_dict)
             ELSE load_btx_directory(Tail(btx_files),
                                     load_items(parsed.items, file,
                                                target_dict))

\* A mutation of on_missing_root: the tables are cleared before the check.
on_missing_root_cleared(table) == EmptyDict

\* Lines 322-327: the raise comes before the two clear() calls.
on_missing_root(table) == table

\* The table load_toolchest fills from a tool directory (lines 330-341): an
\* absent directory leaves the cleared table empty.
table_of(dir) ==
    IF dir.exists THEN load_btx_directory(dir.files, EmptyDict)
    ELSE EmptyDict

\* The toolchest directory is removed, created, or its files change.
ChangeToolchest ==
    /\ \E t \in Toolchests : t # toolchest /\ toolchest' = t
    /\ UNCHANGED <<bid_icons, deployment_icons, loaded, load_result, scanned>>
    /\ UNCHANGED <<assigner_vars, replacer_vars, storage_vars, concurrent_vars, group_vars,
                   rect_vars, config_vars, layer_vars, request_vars,
                   extractor_vars>>

\* BTXReferenceLoader.load_toolchest on one loader object.
LoadToolchest ==
    /\ IF ~toolchest.exists
       THEN /\ load_result' = "raised"
            /\ bid_icons' = on_missing_root(bid_icons)
            /\ deployment_icons' = on_missing_root(deployment_icons)
            /\ UNCHANGED <<loaded, scanned>>
       ELSE /\ load_result' = "returned"
            /\ bid_icons' = table_of(toolchest.bid)
            /\ deployment_icons' = table_of(toolchest.deployment)
            /\ loaded' = TRUE
            /\ scanned' = toolchest
    /\ UNCHANGED toolchest
    /\ UNCHANGED <<assigner_vars, replacer_vars, storage_vars, concurrent_vars, group_vars,
                   rect_vars, config_vars, layer_vars, request_vars,
                   extractor_vars>>

\* ------------------------------------------------------------------------
\* convert_pdf (app/routers/convert.py): one request after the other
\* ------------------------------------------------------------------------
\* What can be at settings.deployment_map_path.
DeploymentMaps == { "missing", "unreadable", "readable" }

\* Lines 50-84 of a new request: the upload is found, the mapping is loaded,
\* and a new BTXReferenceLoader loads the toolchest; its FileNotFoundError
\* is caught at line 159 and answered with status 500.  output_path is the
\* same for every request of one upload.
ConvertPdfLoad ==
    /\ request_pc \in {"idle", "done"}
    /\ request_classified' = 0
    /\ request_output' = FALSE
    /\ request_extractor' = "None"
    /\ IF toolchest.exists
       THEN /\ request_pc' = "btx_loaded"
            /\ request_status' = 0
            /\ request_error' = ""
       ELSE /\ request_pc' = "done"
            /\ request_status' = 500
            /\ request_error' = "load_toolchest"
    /\ UNCHANGED output_file
    /\ UNCHANGED <<assigner_vars, replacer_vars, storage_vars, concurrent_vars, group_vars,
                   rect_vars, config_vars, layer_vars, loader_vars,
                   extractor_vars>>

\* Lines 87-99: the extractor is created and loaded only if the deployment
\* map exists; what load_from_pdf raises is caught at line 159.
ConvertPdfExtractor ==
    /\ request_pc = "btx_loaded"
    /\ \E deployment_map \in DeploymentMaps :
         CASE deployment_map = "missing" ->
                /\ request_pc' = "ready"
                /\ UNCHANGED <<request_status, request_error,
                               request_extractor>>
           [] deployment_map = "unreadable" ->
                /\ request_pc' = "done"
                /\ request_status' = 500
                /\ request_error' = "load_from_pdf"
                /\ request_extractor' = "AppearanceExtractor"
           [] OTHER ->
                /\ request_pc' = "ready"
                /\ request_extractor' = "AppearanceExtractor"
                /\ UNCHANGED <<request_status, request_error>>
    /\ UNCHANGED <<request_classified, request_output, output_file>>
    /\ UNCHANGED <<assigner_vars, replacer_vars, storage_vars, concurrent_vars, group_vars,
                   rect_vars, config_vars, layer_vars, loader_vars,
                   extractor_vars>>

\* Lines 102-116: the replacer is created and replace_annotations runs over
\* the upload (a document without annotations or one with MaxAnnots of
\* them); a missing input returns (0, 0, []) and writes nothing.
ConvertPdfReplace ==
    /\ request_pc = "ready"
    /\ request_pc' = "replaced"
    /\ \E ex \in BOOLEAN, n \in {0, MaxAnnots} :
         /\ request_classified' = IF ex THEN n ELSE 0
         /\ request_output' = ex
         /\ output_file' = (output_file \/ ex)
    /\ UNCHANGED <<request_status, request_error, request_extractor>>
    /\ UNCHANGED <<assigner_vars, replacer_vars, storage_vars, concurrent_vars, group_vars,
                   rect_vars, config_vars, layer_vars, loader_vars,
                   extractor_vars>>

\* Lines 119-164: output_path.read_bytes() and the response; the
\* FileNotFoundError of read_bytes is caught at line 159.
ConvertPdfStore ==
    /\ request_pc = "replaced"
    /\ request_pc' = "done"
    /\ IF output_file
       THEN request_status' = 200 /\ request_error' = ""
       ELSE request_status' = 500 /\ request_error' = "read_bytes"
    /\ UNCHANGED <<request_extractor, request_classified, request_output,
                   output_file>>
    /\ UNCHANGED <<assigner_vars, replacer_vars, storage_vars, concurrent_vars, group_vars,
                   rect_vars, config_vars, layer_vars, loader_vars,
                   extractor_vars>>

NextLoader ==
    \/ ChangeToolchest
    \/ LoadToolchest
    \/ ConvertPdfLoad
    \/ ConvertPdfExtractor
    \/ ConvertPdfReplace
    \/ ConvertPdfStore

SpecLoader == Init /\ [][NextLoader]_vars

\* ------------------------------------------------------------------------
\* AppearanceExtractor (app/services/appearance_extractor.py)
\* ------------------------------------------------------------------------
\* _extract_from_page over the annotations of the document: an annotation
\* without subject, with a subject that is stored already, or without fill
\* and stroke is skipped (lines 83-100).
RECURSIVE extract_from_page(_, _)
extract_from_page(page_annots, table) ==
    IF page_annots = <<>> THEN table
    ELSE LET annot == Head(page_annots)
         IN  IF \/ annot.subject = ""
                \/ annot.subject \in DOMAIN table
                \/ (annot.fill = "None" /\ annot.stroke = "None")
             THEN extract_from_page(Tail(page_annots), table)
             ELSE extract_from_page(Tail(page_annots),
                      DictSet(table, annot.subject,
                              [fill |-> annot.fill, stroke |-> annot.stroke]))

\* Lines 48-49: raise FileNotFoundError.
missing_document(doc) ==
    [called |-> TRUE, raised |-> "FileNotFoundError", count |-> 0]

\* AppearanceExtractor.has_appearance
has_appearance(subject) == subject \in DOMAIN appearances

\* The file at pdf_path is removed, damaged or replaced.
ChangeReferenceDocument ==
    /\ \E doc \in ReferenceDocuments :
         doc # reference_document /\ reference_document' = doc
    /\ UNCHANGED <<appearances, extractor_loaded, extractor_result>>
    /\ UNCHANGED <<assigner_vars, replacer_vars, storage_vars, concurrent_vars, group_vars,
                   rect_vars, config_vars, layer_vars, loader_vars,
                   request_vars>>

\* AppearanceExtractor.load_from_pdf(pdf_path) on one extractor object.  A
\* missing file raises before anything is assigned; pymupdf.open (line 53)
\* raises on an unreadable file after appearances.clear() (line 51).
LoadFromPdf ==
    /\ CASE reference_document.state = "missing" ->
              /\ extractor_result' = missing_document(reference_document)
              /\ UNCHANGED <<appearances, extractor_loaded>>
         [] reference_document.state = "unreadable" ->
              /\ extractor_result' =
                   [called |-> TRUE, raised |-> "FileDataError", count |-> 0]
              /\ appearances' = EmptyDict
              /\ UNCHANGED extractor_loaded
         [] OTHER ->
              LET table == extract_from_page(reference_document.annots,
                                             EmptyDict)
              IN  /\ appearances' = table
                  /\ extractor_loaded' = TRUE
                  /\ extractor_result' =
                       [called |-> TRUE, raised |-> "",
                        count |-> Cardinality(DOMAIN table)]
    /\ UNCHANGED reference_document
    /\ UNCHANGED <<assigner_vars, replacer_vars, storage_vars, concurrent_vars, group_vars,
                   rect_vars, config_vars, layer_vars, loader_vars,
                   request_vars>>

NextExtractor ==
    \/ ChangeReferenceDocument
    \/ LoadFromPdf
    \/ ConvertPdfLoad
    \/ ConvertPdfExtractor
    \/ ConvertPdfReplace
    \/ ConvertPdfStore

SpecExtractor == Init /\ [][NextExtractor]_vars

\* ------------------------------------------------------------------------
\* IconOverrideStore.load / save (app/services/icon_override_store.py)
\* ------------------------------------------------------------------------
\* The "icons" a caller of save() passes.
StoreIcons ==
    { EmptyDict,
      [ t \in {"AP - Cisco MR36H"} |-> "APs" ],
      [ t \in {"AP - Cisco MR36H", "SW - Cisco Micro 4P"} |->
          IF t = "AP - Cisco MR36H" THEN "APs" ELSE "Switches" ] }

\* A mutation of save_target: save() writes into json_path itself.
save_target_in_place == "json"

\* Line 42: tmp_path = self.json_path.with_suffix(".tmp"); lines 43-44 write
\* into it.
save_target == "tmp"

\* load() of a file (lines 26-33): a missing file and a file json.load
\* cannot decode give the empty structure.
load_file(file) ==
    IF file.exists /\ file.written = MaxChunks THEN file.data
    ELSE EmptyDocument

\* tmp_path.rename(self.json_path) (line 45).
rename(files, src, dst) ==
    IF src = dst THEN files
    ELSE [files EXCEPT ![dst] = files[src], ![src] = NoFile]

\* save(data), lines 36-43: _meta is set and the target is opened for
\* writing, which creates it or empties it.
SaveBegin ==
    /\ store_pc = "idle"
    /\ store_saves < MaxSaves
    /\ store_saves' = store_saves + 1
    /\ \E icons_arg \in StoreIcons :
         LET data == [icons |-> icons_arg, rev |-> store_saves + 1]
         IN  /\ store_new' = data
             /\ store_files' =
                  [store_files EXCEPT ![save_target] = FileOf(data, 0)]
    /\ store_previous' = load_file(store_files["json"])
    /\ store_pc' = "writing"
    /\ store_result' = "none"
    /\ UNCHANGED store_loaded
    /\ UNCHANGED <<assigner_vars, replacer_vars, service_vars, fm_vars,
                   fallback_vars, icon_vars>>

\* Line 44: json.dump writes the next piece of the text.
SaveWrite ==
    /\ store_pc = "writing"
    /\ store_files[save_target].written < MaxChunks
    /\ store_files' =
         [store_files EXCEPT ![save_target].written = @ + 1]
    /\ UNCHANGED <<store_pc, store_saves, store_previous, store_new,
                   store_result, store_loaded>>
    /\ UNCHANGED <<assigner_vars, replacer_vars, service_vars, fm_vars,
                   fallback_vars, icon_vars>>

\* Line 45: the file is closed and renamed; save() returns.
SaveRename ==
    /\ store_pc = "writing"
    /\ store_files[save_target].written = MaxChunks
    /\ store_files' = rename(store_files, save_target, "json")
    /\ store_pc' = "idle"
    /\ store_result' = "completed"
    /\ UNCHANGED <<store_saves, store_previous, store_new, store_loaded>>
    /\ UNCHANGED <<assigner_vars, replacer_vars, service_vars, fm_vars,
                   fallback_vars, icon_vars>>

\* The process dies in save(); the files stay as they are.
SaveInterrupted ==
    /\ store_pc = "writing"
    /\ store_pc' = "idle"
    /\ store_result' = "interrupted"
    /\ UNCHANGED <<store_files, store_saves, store_previous, store_new,
                   store_loaded>>
    /\ UNCHANGED <<assigner_vars, replacer_vars, service_vars, fm_vars,
                   fallback_vars, icon_vars>>

\* load(), by the process after its save() or by one started after the
\* interruption; the result is kept with the save() it came after.
StoreLoad ==
    /\ store_loaded' = [ data |-> load_file(store_files["json"]),
                         save |-> store_saves, after |-> store_result ]
    /\ UNCHANGED <<store_files, store_pc, store_saves, store_previous,
                   store_new, store_result>>
    /\ UNCHANGED <<assigner_vars, replacer_vars, service_vars, fm_vars,
                   fallback_vars, icon_vars>>

NextStore ==
    \/ SaveBegin
    \/ SaveWrite
    \/ SaveRename
    \/ SaveInterrupted
    \/ StoreLoad

SpecStore == Init /\ [][NextStore]_vars

\* ------------------------------------------------------------------------
\* FileManager (app/services/file_manager.py)
\* ------------------------------------------------------------------------
\* settings.file_retention_hours (app/config.py)
file_retention_hours == 1

\* The file_ids a caller can ask for: those given out so far, and 0 for a
\* string that is no file_id of this manager.
KnownIds == 0..fm_issued

\* A mutation of is_expired: a file expires at its expiry time.
is_expired_at_expiry(created_at, now) ==
    now >= created_at + file_retention_hours

\* FileMetadata.is_expired: datetime.now() > created_at + retention.
is_expired(created_at, now) == now > created_at + file_retention_hours

\* The dict d without the keys in ks.
Without(d, ks) == [ k \in (DOMAIN d) \ ks |-> d[k] ]

\* Time passes.
Tick ==
    /\ fm_now < MaxClock
    /\ fm_now' = fm_now + 1
    /\ fm_op' = "tick"
    /\ UNCHANGED <<fm_files, fm_disk, fm_issued, fm_got, fm_none, fm_count>>
    /\ UNCHANGED <<assigner_vars, replacer_vars, service_vars, store_vars,
                   fallback_vars, icon_vars>>

\* store_upload / store_converted: a new uuid, the file is written and the
\* metadata is put in _files.
StoreFile ==
    /\ fm_issued < MaxStored
    /\ fm_issued' = fm_issued + 1
    /\ fm_files' = DictSet(fm_files, fm_issued + 1, fm_now)
    /\ fm_disk' = fm_disk \cup {fm_issued + 1}
    /\ fm_op' = "store"
    /\ UNCHANGED <<fm_now, fm_got, fm_none, fm_count>>
    /\ UNCHANGED <<assigner_vars, replacer_vars, service_vars, store_vars,
                   fallback_vars, icon_vars>>

\* A stored file is removed from the temp directory by someone else.
FileVanishes ==
    /\ \E file_id \in fm_disk : fm_disk' = fm_disk \ {file_id}
    /\ fm_op' = "vanish"
    /\ UNCHANGED <<fm_now, fm_files, fm_issued, fm_got, fm_none, fm_count>>
    /\ UNCHANGED <<assigner_vars, replacer_vars, service_vars, store_vars,
                   fallback_vars, icon_vars>>

\* FileManager.get_file(file_id); an expired entry goes through
\* _cleanup_file, which unlinks the file and deletes the entry.
GetFile ==
    /\ \E file_id \in KnownIds :
         IF file_id \notin DOMAIN fm_files
         THEN /\ fm_got' = [file_id |-> file_id, found |-> FALSE]
              /\ fm_none' = fm_none \cup {file_id}
              /\ UNCHANGED <<fm_files, fm_disk>>
         ELSE IF is_expired(fm_files[file_id], fm_now)
         THEN /\ fm_got' = [file_id |-> file_id, found |-> FALSE]
              /\ fm_none' = fm_none \cup {file_id}
              /\ fm_files' = Without(fm_files, {file_id})
              /\ fm_disk' = fm_disk \ {file_id}
         ELSE IF file_id \notin fm_disk
         THEN /\ fm_got' = [file_id |-> file_id, found |-> FALSE]
              /\ fm_none' = fm_none \cup {file_id}
              /\ fm_files' = Without(fm_files, {file_id})
              /\ UNCHANGED fm_disk
         ELSE /\ fm_got' = [file_id |-> file_id, found |-> TRUE]
              /\ UNCHANGED <<fm_files, fm_disk, fm_none>>
    /\ fm_op' = "get"
    /\ UNCHANGED <<fm_now, fm_issued, fm_count>>
    /\ UNCHANGED <<assigner_vars, replacer_vars, service_vars, store_vars,
                   fallback_vars, icon_vars>>

\* FileManager.cleanup_expired
CleanupExpired ==
    /\ LET expired_ids == { file_id \in DOMAIN fm_files :
                              is_expired(fm_files[file_id], fm_now) }
       IN  /\ fm_files' = Without(fm_files, expired_ids)
           /\ fm_disk' = fm_disk \ expired_ids
           /\ fm_count' = Cardinality(expired_ids)
    /\ fm_op' = "cleanup"
    /\ UNCHANGED <<fm_now, fm_issued, fm_got, fm_none>>
    /\ UNCHANGED <<assigner_vars, replacer_vars, service_vars, store_vars,
                   fallback_vars, icon_vars>>

NextFiles ==
    \/ Tick
    \/ StoreFile
    \/ FileVanishes
    \/ GetFile
    \/ CleanupExpired

SpecFiles == Init /\ [][NextFiles]_vars

\* ------------------------------------------------------------------------
\* The fallback path: specification
\* ------------------------------------------------------------------------
\* The icon configuration of the subject changes: an entry of the overrides
\* file is saved or deleted, or the image file comes or goes.
ChangeIcon ==
    /\ \E icon \in IconStates \ {fallback_icon} : fallback_icon' = icon
    /\ fallback_changed' = (fallback_changed \/ fallback_pc = "fallback")
    /\ UNCHANGED <<fallback_renderer, fallback_colors, fallback_subtype,
                   fallback_pc, fallback_annot>>
    /\ UNCHANGED <<assigner_vars, replacer_vars, service_vars, store_vars,
                   fm_vars, icon_vars>>

\* replace_annotations lines 555-561 for a mapped convertible annotation:
\* render_compound_icon returns None without a renderer or without a
\* configuration, and the conversion takes the fallback branch.
ConvertBegin ==
    /\ fallback_pc = "idle"
    /\ \E renderer \in BOOLEAN, data \in AppearanceData,
          subtype \in CONVERTIBLE_SUBTYPES :
         /\ fallback_renderer' = renderer
         /\ fallback_colors' = data
         /\ fallback_subtype' = subtype
         /\ fallback_pc' = IF renderer /\ fallback_icon # "none"
                           THEN "idle" ELSE "fallback"
    /\ fallback_changed' = FALSE
    /\ fallback_annot' = NoAnnotation
    /\ UNCHANGED fallback_icon
    /\ UNCHANGED <<assigner_vars, replacer_vars, service_vars, store_vars,
                   fm_vars, icon_vars>>

\* replace_annotations lines 573-603: the single annotation is built.
ConvertFallback ==
    /\ fallback_pc = "fallback"
    /\ fallback_annot' = fallback_annotation(fallback_renderer, fallback_icon,
                                             fallback_colors,
                                             fallback_subtype)
    /\ fallback_pc' = "idle"
    /\ UNCHANGED <<fallback_renderer, fallback_icon, fallback_colors,
                   fallback_subtype, fallback_changed>>
    /\ UNCHANGED <<assigner_vars, replacer_vars, service_vars, store_vars,
                   fm_vars, icon_vars>>

NextFallback == ChangeIcon \/ ConvertBegin \/ ConvertFallback

SpecFallback == Init /\ [][NextFallback]_vars

\* ------------------------------------------------------------------------
\* The icon renderer on a configuration: specification
\* ------------------------------------------------------------------------
\* render_compound_icon for a subject with any configuration or none, with
\* or without its image file and with or without an identifier.
RenderFromConfig ==
    /\ \E config \in IconConfigs \cup {NoIconConfig},
          image_exists \in BOOLEAN, derived \in ModelTexts,
          subject \in IconConfigSubjects :
         /\ icon_subject' = subject
         /\ icon_config' = config
         /\ icon_image' = image_exists
         /\ icon_model_text' = derived
         /\ icon_components' =
                render_compound_from_config(config, image_exists, derived,
                    IdLabel(get_next_id(FreshCounters, subject)))
    /\ UNCHANGED <<assigner_vars, replacer_vars, service_vars, store_vars,
                   fm_vars, fallback_vars>>

NextIcon == RenderFromConfig

SpecIcon == Init /\ [][NextIcon]_vars

\* ------------------------------------------------------------------------
\* Long runs of lookups on an IconIdAssigner: specification
\* ------------------------------------------------------------------------
\* k get_next_id calls in a row for one subject on the counters c: the
\* labels returned, in order, and the counters after the calls (the first
\* half of the calls, then the rest on the counters the first half left).
RECURSIVE lookups(_, _, _)
lookups(c, deployment_subject, k) ==
    IF k = 0 THEN [labels |-> <<>>, counters |-> c]
    ELSE IF k = 1
    THEN LET r == get_next_id(c, deployment_subject)
         IN  [labels |-> << r.label >>, counters |-> r.counters]
    ELSE LET first == lookups(c, deployment_subject, k \div 2)
             rest == lookups(first.counters, deployment_subject,
                             k - (k \div 2))
         IN  [labels |-> first.labels \o rest.labels,
              counters |-> rest.counters]

\* The number of rows of lookups since the last reset.
Bursts ==
    Cardinality({ i \in DOMAIN calls :
                    IF i = 1 THEN TRUE ELSE calls[i] # calls[i - 1] })

\* assigner.get_next_id(s), k times in a row.
CallGetNextIdRun ==
    /\ \E s \in DeploymentSubjects, k \in {1, MaxBurst} :
         /\ (IF calls = <<>> THEN TRUE ELSE calls[Len(calls)] # s)
         /\ Bursts < MaxBursts
         /\ LET r == lookups(counters, s, k)
            IN  /\ counters' = r.counters
                /\ calls' = calls \o [ i \in 1..k |-> s ]
                /\ labels' = labels \o r.labels
    /\ UNCHANGED <<resets, dirty, replacer_vars, service_vars, storage_vars>>

NextLongRuns == CallGetNextIdRun \/ CallReset

SpecLongRuns == Init /\ [][NextLongRuns]_vars

\* ------------------------------------------------------------------------
\* Vocabulary of the properties (stated on the input and on the outputs)
\* ------------------------------------------------------------------------
\* Positions of the array arr that hold the original reference of index i.
OrigsIn(arr, i) ==
    { k \in 1..Len(arr) : arr[k].kind = "orig" /\ arr[k].ref = i }

\* Positions of the array arr that hold an annotation generated for index i.
GensIn(arr, i) ==
    { k \in 1..Len(arr) : arr[k].kind = "gen" /\ arr[k].src = i }

Origs(i) == OrigsIn(new_annots, i)
Gens(i) == GensIn(new_annots, i)

\* Positions (from 1) of the entries read so far; position p has index p - 1.
Read == 1..Len(annots)

Readable(e) == e.fault # "deref"
IsCircleOrSquare(e) == e.subtype \in {"/Circle", "/Square"}
HasMarker(e) == e.subj \in {"Legend - AP", "CLAIR GEAR LIST"}
IsMapped(e) == e.subj \in {"Legend - AP", "Artist - Indoor Wi-Fi Access Point", "Bid - Battery"}
IsMappedChild(e) == e.irt /\ IsMapped(e)

\* A circle or square with a subject that is neither a legend nor a mapped
\* child: the annotations the counts are about.
Counted(e) ==
    /\ Readable(e)
    /\ IsCircleOrSquare(e)
    /\ e.subj # ""
    /\ ~HasMarker(e)
    /\ ~IsMappedChild(e)

\* Processing the entry raises an exception.
Raises(e) ==
    \/ ~Readable(e)
    \/ /\ Counted(e)
       /\ IsMapped(e)
       /\ (e.rect = "raises" \/ (e.rect = "ok" /\ e.fault = "convert"))

\* The step reads one entry; NewEntry is that entry.
ReadsEntry == pc = "loop" /\ Len(annots') = Len(annots) + 1
NewEntry == annots'[Len(annots')]

ErrorTagged(p) ==
    \E k \in 1..Len(skipped_subjects) : skipped_subjects[k] = ErrorTag(p - 1)

SubjectTags ==
    { k \in 1..Len(skipped_subjects) : skipped_subjects[k].index = -1 }

\* ------------------------------------------------------------------------
\* C1
\* ------------------------------------------------------------------------
\* C1 (as claimed): when the run has rebuilt the page, converted_count +
\* skipped_count equals the number of /Circle and /Square annotations that
\* were present.
C1_CountsAllCirclesAndSquares ==
    (pc = "done" /\ output_written) =>
        converted_count + skipped_count =
            Cardinality({ p \in Read : IsCircleOrSquare(annots[p]) })

\* C1 (amended): converted_count + skipped_count equals the number of
\* /Circle and /Square annotations that have a non-empty, non-legend
\* subject and are not mapped children, plus the number of unreadable
\* entries; each of these is in exactly one of the buckets converted
\* (generated annotations stand in its place), skipped with its subject
\* (kept, subject recorded) and skipped for error (kept, error recorded),
\* and no other entry is in any bucket.
C1_CountsEligible ==
    LET counted    == { p \in Read : Counted(annots[p]) }
        unreadable == { p \in Read : ~Readable(annots[p]) }
        conv(p)    == Gens(p - 1) # {}
        err(p)     == ErrorTagged(p)
        skip(p)    == Origs(p - 1) # {} /\ ~ErrorTagged(p)
    IN  /\ converted_count + skipped_count =
               Cardinality(counted) + Cardinality(unreadable)
        /\ converted_count = Cardinality({ p \in counted : conv(p) })
        /\ skipped_count = Len(skipped_subjects)
        /\ Cardinality(SubjectTags) = Cardinality({ p \in counted : skip(p) })
        /\ \A p \in counted :
              /\ conv(p) \/ err(p) \/ skip(p)
              /\ ~(conv(p) /\ err(p))
              /\ ~(conv(p) /\ skip(p))
              /\ skip(p) =>
                    \E k \in SubjectTags :
                        skipped_subjects[k].text = annots[p].subj
        /\ \A p \in unreadable : err(p) /\ ~conv(p)
        /\ \A p \in Read \ (counted \cup unreadable) : ~conv(p) /\ ~err(p)

\* A finished run with a deleted legend circle next to a converted circle.
C1_Witness ==
    /\ pc = "done" /\ output_written
    /\ converted_count = 1
    /\ \E p \in Read : IsCircleOrSquare(annots[p]) /\ HasMarker(annots[p])
    /\ \E p \in Read : Counted(annots[p]) /\ Gens(p - 1) # {}

\* ------------------------------------------------------------------------
\* C2
\* ------------------------------------------------------------------------
\* C2: the step that processes a /Circle or /Square annotation with a
\* non-empty, non-legend subject without mapping appends the same original
\* reference to the rebuilt array, increases skipped_count by exactly 1,
\* appends the subject to skipped_subjects and leaves converted_count alone.
C2_UnmappedKeptAndCounted ==
    [][ ( /\ ReadsEntry
          /\ Readable(NewEntry)
          /\ IsCircleOrSquare(NewEntry)
          /\ NewEntry.subj # ""
          /\ ~HasMarker(NewEntry)
          /\ ~IsMapped(NewEntry) )
        => ( /\ new_annots' = Append(new_annots, OrigRef(Len(annots)))
             /\ skipped_count' = skipped_count + 1
             /\ skipped_subjects' =
                    Append(skipped_subjects, SubjectTag(NewEntry.subj))
             /\ converted_count' = converted_count ) ]_vars

\* A finished run in which "Unmapped - Widget" on a circle was kept.
C2_Witness ==
    /\ pc = "done" /\ output_written
    /\ \E p \in Read :
          /\ annots[p].subtype = "/Circle"
          /\ annots[p].subj = "Unmapped - Widget"
          /\ Origs(p - 1) # {}
          /\ skipped_count = 1
          /\ skipped_subjects = << SubjectTag("Unmapped - Widget") >>

\* ------------------------------------------------------------------------
\* C3
\* ------------------------------------------------------------------------
\* C3: no input annotation that has /IRT and a mapped subject is in the
\* rebuilt array, whatever its subtype and position.
C3_MappedChildrenDropped ==
    \A p \in Read :
        (Readable(annots[p]) /\ annots[p].irt /\ IsMapped(annots[p]))
            => Origs(p - 1) = {}

\* A finished run that dropped a mapped /Popup child placed before its
\* root, which was converted.
C3_Witness ==
    /\ pc = "done" /\ output_written
    /\ Len(annots) = 2
    /\ annots[1].subtype = "/Popup" /\ annots[1].irt
    /\ annots[1].subj = "Artist - Indoor Wi-Fi Access Point"
    /\ Origs(0) = {}
    /\ Gens(1) # {}

\* ------------------------------------------------------------------------
\* C4
\* ------------------------------------------------------------------------
\* C4: no input annotation whose subject contains a legend / gear-list
\* marker is in the rebuilt array, nor anything generated for it, whether or
\* not it is mapped, whatever its subtype and parent relation.
C4_LegendNeverKept ==
    \A p \in Read :
        (Readable(annots[p]) /\ HasMarker(annots[p]))
            => (Origs(p - 1) = {} /\ Gens(p - 1) = {})

\* A finished run that deleted a mapped legend circle and an unmapped
\* gear-list child of another subtype.
C4_Witness ==
    /\ pc = "done" /\ output_written
    /\ new_annots = <<>>
    /\ \E p \in Read :
          /\ annots[p].subj = "Legend - AP"
          /\ annots[p].subtype = "/Circle" /\ ~annots[p].irt
    /\ \E p \in Read :
          /\ annots[p].subj = "CLAIR GEAR LIST"
          /\ annots[p].subtype = "/Popup" /\ annots[p].irt

\* ------------------------------------------------------------------------
\* C5
\* ------------------------------------------------------------------------
\* C5 (as claimed): every annotation whose subtype is not circle or square
\* is in the rebuilt array as the same original object, for every subject,
\* mapping status and parent relation.
C5_OtherSubtypesAlwaysKept ==
    \A p \in Read :
        (Readable(annots[p]) /\ ~IsCircleOrSquare(annots[p]))
            => Cardinality(Origs(p - 1)) = 1

\* C5 (amended): every annotation whose subtype is not circle or square,
\* whose subject contains no legend / gear-list marker and which is not a
\* child (/IRT) with a mapped subject is in the rebuilt array exactly once
\* as the same original object, nothing is generated for it and it is not
\* counted.
C5_OtherSubtypesKept ==
    /\ \A p \in Read :
          ( /\ Readable(annots[p])
            /\ ~IsCircleOrSquare(annots[p])
            /\ ~HasMarker(annots[p])
            /\ ~IsMappedChild(annots[p]) )
          => ( /\ Cardinality(Origs(p - 1)) = 1
               /\ Gens(p - 1) = {}
               /\ ~ErrorTagged(p) )
    /\ (\A p \in Read : Readable(annots[p]) /\ ~IsCircleOrSquare(annots[p]))
          => (converted_count = 0 /\ skipped_count = 0)

\* A finished run that kept a /Popup with a mapped subject and an unmapped
\* /Popup child.
C5_Witness ==
    /\ pc = "done" /\ output_written
    /\ new_annots = << OrigRef(0), OrigRef(1) >>
    /\ annots[1].subtype = "/Popup" /\ IsMapped(annots[1]) /\ ~annots[1].irt
    /\ annots[2].subtype = "/Popup" /\ ~IsMapped(annots[2]) /\ annots[2].irt
    /\ annots[2].subj # ""

\* ------------------------------------------------------------------------
\* C6
\* ------------------------------------------------------------------------
\* C6: the step that processes an entry whose processing raises (the entry
\* is unreadable, its /Rect is rejected by float(), or rendering or group
\* construction fails) appends the entry's original reference and nothing
\* else to the rebuilt array, increases skipped_count by exactly 1, leaves
\* converted_count alone and goes on with the next entry, if there is one;
\* and when the run returns,
\* every entry of the page has been classified, the output is written, and
\* every entry that raised is in the rebuilt array exactly once with no
\* annotation generated for it.
C6_ErrorPreservesEntry ==
    [][ /\ (ReadsEntry /\ Raises(NewEntry))
            => ( /\ new_annots' = Append(new_annots, OrigRef(Len(annots)))
                 /\ skipped_count' = skipped_count + 1
                 /\ converted_count' = converted_count
                 /\ pc' = (IF Len(annots') = total THEN "done" ELSE "loop") )
        /\ (pc' = "done" /\ input_exists')
            => ( /\ Len(annots') = total'
                 /\ output_written'
                 /\ \A p \in 1..Len(annots') :
                       Raises(annots'[p]) =>
                         /\ Cardinality(OrigsIn(new_annots', p - 1)) = 1
                         /\ GensIn(new_annots', p - 1) = {} ) ]_vars

\* A finished run whose first entry failed after the identifier lookup and
\* was kept, and whose second entry was converted.
C6_Witness ==
    /\ pc = "done" /\ output_written
    /\ Len(annots) = 2
    /\ annots[1].fault = "convert"
    /\ new_annots[1] = OrigRef(0)
    /\ Gens(0) = {}
    /\ Gens(1) # {}
    /\ skipped_count = 1
    /\ converted_count = 1

\* ------------------------------------------------------------------------
\* C7
\* ------------------------------------------------------------------------
\* The terminal action of an entry, read off the input.
TerminalAction(e) ==
    CASE Raises(e)                                -> "error-preserve"
      [] ~Raises(e) /\ HasMarker(e)               -> "delete"
      [] ~Raises(e) /\ ~HasMarker(e) /\ e.subj # "" /\ IsMappedChild(e) -> "drop"
      [] ~Raises(e) /\ Counted(e) /\ IsMapped(e) /\ e.rect = "ok" -> "convert"
      [] OTHER                                    -> "preserve"

\* C7: every entry read has exactly one terminal action: a deleted or
\* dropped entry is neither in the rebuilt array nor replaced; a preserved
\* or error-preserved entry is in the rebuilt array exactly once and nothing
\* is generated for it; a converted entry is not in the rebuilt array and
\* its generated annotations are; so an original entry is in the array at
\* most once and only when it was preserved.
C7_OneTerminalAction ==
    \A p \in Read :
        LET a == TerminalAction(annots[p])
            o == Cardinality(Origs(p - 1))
            g == Cardinality(Gens(p - 1))
        IN  /\ o <= 1
            /\ (a \in {"delete", "drop"}) => (o = 0 /\ g = 0)
            /\ (a \in {"preserve", "error-preserve"}) => (o = 1 /\ g = 0)
            /\ (a = "convert") => (o = 0 /\ g >= 1)
            /\ (o = 1) => (a \in {"preserve", "error-preserve"})

\* A finished run that converted its first entry into a group and kept its
\* second entry.
C7_Witness ==
    /\ pc = "done" /\ output_written
    /\ Len(annots) = 2
    /\ TerminalAction(annots[1]) = "convert"
    /\ TerminalAction(annots[2]) = "preserve"
    /\ Len(new_annots) = 8
    /\ new_annots[8] = OrigRef(1)

\* ------------------------------------------------------------------------
\* C8
\* ------------------------------------------------------------------------
\* The subjects configured with the counter key of subject s.
SameKey(s) ==
    { t \in IdSubjects :
        /\ ID_PREFIX_CONFIG[t].prefix = ID_PREFIX_CONFIG[s].prefix
        /\ ID_PREFIX_CONFIG[t].start = ID_PREFIX_CONFIG[s].start }

\* C8: since the last reset (or construction), the k-th call among the
\* calls for subjects configured with one (prefix, start) returned the
\* number start + k - 1, number first for a subject configured
\* number_first and prefix first otherwise.
C8_KthCallReturnsStartPlusK ==
    \A i \in 1..Len(calls) :
        calls[i] \in IdSubjects =>
            LET cfg == ID_PREFIX_CONFIG[calls[i]]
                k == Cardinality({ j \in 1..i : calls[j] \in SameKey(calls[i]) })
            IN  /\ labels[i].num = cfg.start + k - 1
                /\ labels[i].prefix = cfg.prefix
                /\ labels[i].order =
                     (IF calls[i] = "CCTV - Cisco MV93X"
                      THEN "number_first" ELSE "prefix_first")

\* After a reset that cleared used counters: a camera and a switch share
\* (a, 100) and get 100a, a101, 102a.
C8_Witness ==
    /\ resets >= 1 /\ dirty
    /\ calls = << "CCTV - Cisco MV93X", "SW - Cisco Micro 4P", "CCTV - Cisco MV93X" >>
    /\ labels = << [order |-> "number_first", prefix |-> "a", num |-> 100],
                   [order |-> "prefix_first", prefix |-> "a", num |-> 101],
                   [order |-> "number_first", prefix |-> "a", num |-> 102] >>

\* ------------------------------------------------------------------------
\* C9
\* ------------------------------------------------------------------------
\* The subsequence of seq at the positions i where by[i] is in keep.
RECURSIVE Project(_, _, _)
Project(seq, by, keep) ==
    IF seq = <<>> THEN <<>>
    ELSE (IF Head(by) \in keep THEN <<Head(seq)>> ELSE <<>>)
             \o Project(Tail(seq), Tail(by), keep)

\* C9: for two subjects s and t configured with the same prefix and
\* different starts, the labels s has received are the labels a fresh
\* assigner returns to s for the same calls with the calls for t left out.
C9_DifferentStartsIndependent ==
    \A s, t \in IdSubjects :
        ( /\ ID_PREFIX_CONFIG[s].prefix = ID_PREFIX_CONFIG[t].prefix
          /\ ID_PREFIX_CONFIG[s].start # ID_PREFIX_CONFIG[t].start )
        => LET without == Project(calls, calls, DeploymentSubjects \ {t})
           IN  Project(labels, calls, {s}) =
                   Project(FreshLabels(without), without, {s})

\* The d300 and d500 switches called in turn: d300, d500, d301.
C9_Witness ==
    /\ calls = << "SW - Cisco 9300X 24X", "SW - Cisco 9300 12X36M", "SW - Cisco 9300X 24X" >>
    /\ labels[1].num = 300
    /\ labels[2].num = 500
    /\ labels[3].num = 301

\* ------------------------------------------------------------------------
\* C10
\* ------------------------------------------------------------------------
\* C10: whatever was looked up before the last reset, the labels returned
\* since are those a freshly constructed assigner returns for the same
\* lookups, and right after a reset the counters are those of a fresh
\* assigner.
C10_ResetLikeFresh ==
    /\ labels = FreshLabels(calls)
    /\ (calls = <<>>) => (counters = FreshCounters)

\* After a reset that cleared used counters, the first subject looked up
\* again starts at j100.
C10_Witness ==
    /\ resets >= 1 /\ dirty
    /\ calls = << "AP - Cisco MR36H", "AP - Cisco MR36H" >>
    /\ labels = << [order |-> "prefix_first", prefix |-> "j", num |-> 100],
                   [order |-> "prefix_first", prefix |-> "j", num |-> 101] >>

\* Two successive runs of one replacer: the second run, started on used
\* counters, has assigned j100 again.
C10_WitnessSecondRun ==
    /\ runs = 2 /\ dirty /\ pc = "done" /\ output_written
    /\ labels = << [order |-> "prefix_first", prefix |-> "j", num |-> 100] >>

\* ------------------------------------------------------------------------
\* C11
\* ------------------------------------------------------------------------
\* What a conversion of the items its, running alone on a new replacer with
\* run id iid, looks up and emits.
RECURSIVE AloneFrom(_, _, _, _)
AloneFrom(c, seqc, iid, its) ==
    IF its = <<>> THEN [ labels |-> <<>>, sequences |-> <<>> ]
    ELSE LET p == process_entry(c, seqc, iid, Head(its))
             rest == AloneFrom(p.counters, p.sequence_counter, iid, Tail(its))
         IN  [ labels |-> p.labels \o rest.labels,
               sequences |-> p.sequences \o rest.sequences ]

Alone(iid, its) == AloneFrom(FreshCounters, 0, iid, its)

\* C11: in every interleaving of two conversion requests, the identifier
\* labels each request has looked up and the sequence descriptors of the
\* group roots it has emitted are those of the same conversion running
\* alone.
C11_ConcurrentLikeAlone ==
    \A r \in Requests :
        LET alone == Alone(replacers[r].sequence_iid, replacers[r].annots)
        IN  /\ replacers[r].labels = alone.labels
            /\ replacers[r].sequences = alone.sequences

\* Both requests have converted two access points each into groups; each
\* has j100, j101 and the indices 0, 1 under its own run id.
C11_Witness ==
    /\ has_renderer
    /\ \A r \in Requests :
          /\ replacers[r].pc = "done"
          /\ replacers[r].labels =
                 << [order |-> "prefix_first", prefix |-> "j", num |-> 100],
                    [order |-> "prefix_first", prefix |-> "j", num |-> 101] >>
          /\ replacers[r].sequences = << <<r, 0>>, <<r, 1>> >>

\* ------------------------------------------------------------------------
\* C12
\* ------------------------------------------------------------------------
\* C12: in a group built from the rendered components, there is one
\* annotation per component; the first is the root and has no /IRT; it is
\* the only one without /IRT; every other annotation has /IRT on the root;
\* the names are distinct; and all annotations carry the same /GroupNesting:
\* the deployment subject, then the name of every annotation of the group
\* in order, each written with a leading "/".
C12_RootAndChildren ==
    (group # <<>>) =>
        /\ Len(group) = Len(group_components)
        /\ group[1].role = "root_id_text"
        /\ group[1].irt = Absent
        /\ \A i \in 2..Len(group) : group[i].irt = group[1].nm
        /\ Cardinality({ i \in 1..Len(group) : group[i].irt = Absent }) = 1
        /\ \A i, j \in 1..Len(group) : group[i].nm = group[j].nm => i = j
        /\ \A i \in 1..Len(group) :
              /\ group[i].nesting = group[1].nesting
              /\ group[i].nesting.subject = group_subject
              /\ Len(group[i].nesting.names) = Len(group)
              /\ \A j \in 1..Len(group) :
                    group[i].nesting.names[j] = << "/", group[j].nm >>

\* The smallest group (root, container, circle) has been built.
C12_Witness ==
    /\ Len(group) = 3
    /\ group[3].role = "circle"
    /\ group[3].irt = group[1].nm

\* The largest group (seven annotations) has been built.
C12_WitnessFull ==
    /\ Len(group) = 7
    /\ group[7].role = "brand_text"
    /\ group[7].irt = group[1].nm

\* ------------------------------------------------------------------------
\* C13
\* ------------------------------------------------------------------------
\* Positions of the rebuilt array that hold a generated annotation.
Generated == { k \in 1..Len(new_annots) : new_annots[k].kind = "gen" }

\* Positions of the rebuilt array that hold the root of a group.
Roots == { k \in Generated : new_annots[k].role = "root_id_text" }

\* Number of roots emitted before position k.
RootsBefore(k) == Cardinality({ j \in Roots : j < k })

\* No non-root annotation carries /Sequence, and every root carries one with
\* the run id of the current run.
SequenceOnRootsOnly ==
    /\ \A k \in Generated \ Roots : new_annots[k].sequence = Absent
    /\ \A k \in Roots :
          /\ new_annots[k].sequence # Absent
          /\ new_annots[k].sequence[1] = sequence_iid
    /\ (pc # "idle") => (sequence_iid = runs)

C13_WitnessSecondRun ==
    /\ pc = "done" /\ output_written /\ runs = 2 /\ dirty
    /\ Len(new_annots) = 7
    /\ new_annots[1].sequence = <<2, 0>>

\* A finished run in which group construction failed after the root had
\* taken index 0, and the group emitted next has index 1.
C13_WitnessGap ==
    /\ pc = "done" /\ output_written
    /\ Cardinality(Roots) = 1
    /\ \E k \in Roots : new_annots[k].sequence[2] = 1

\* ------------------------------------------------------------------------
\* C14
\* ------------------------------------------------------------------------
Width(rect) == rect[3] - rect[1]
Height(rect) == rect[4] - rect[2]
SameCentre(a, b) == a[1] + a[3] = b[1] + b[3] /\ a[2] + a[4] = b[2] + b[4]

\* The rectangle of the icon emitted: the single annotation, or the
\* container of the group.
IconRects ==
    { out_rects[k].rect : k \in { i \in 1..Len(out_rects) :
                                   out_rects[i].role \in {"single", "container"} } }

\* C14 (as claimed): the deployment annotation emitted for a converted
\* annotation has the origin, the width and the height of the original
\* rectangle.
C14_RectPreserved ==
    \A r \in IconRects :
        /\ r[1] = raw_rect[1] /\ r[2] = raw_rect[2]
        /\ Width(r) = Width(raw_rect)
        /\ Height(r) = Height(raw_rect)

\* What the code guarantees instead: the icon emitted for a converted
\* annotation keeps the centre of the original rectangle and has a fixed size, whatever the size
\* of the original: the single annotation is 14.6 x 14.6, the container of
\* a group is 28 x 33.6, and the circle of the group lies inside the
\* container, centred horizontally on the original centre.
C14_CentrePreserved ==
    \A k \in 1..Len(out_rects) :
        LET r == out_rects[k].rect
        IN  /\ (out_rects[k].role = "single") =>
                  /\ SameCentre(r, raw_rect)
                  /\ Width(r) = 14600 /\ Height(r) = 14600
            /\ (out_rects[k].role = "container") =>
                  /\ SameCentre(r, raw_rect)
                  /\ Width(r) = 28000 /\ Height(r) = 33600
            /\ (out_rects[k].role = "circle") =>
                  /\ r[1] + r[3] = raw_rect[1] + raw_rect[3]
                  /\ Width(r) = Height(r)
                  /\ \A c \in IconRects :
                        /\ c[1] <= r[1] /\ r[3] <= c[3]
                        /\ c[2] <= r[2] /\ r[4] <= c[4]

\* The annotation at [100, 200, 150, 250] has been converted into the
\* single annotation [117.7, 217.7, 132.3, 232.3], centred at (125, 225).
C14_Witness ==
    /\ raw_rect = <<100000, 200000, 150000, 250000>>
    /\ out_rects = << [role |-> "single",
                       rect |-> <<117700, 217700, 132300, 232300>>] >>

\* The same annotation has been converted into a group whose container is
\* [111, 208.2, 139, 241.8].
C14_WitnessCompound ==
    /\ raw_rect = <<100000, 200000, 150000, 250000>>
    /\ Len(out_rects) = 2
    /\ out_rects[1].rect = <<111000, 208200, 139000, 241800>>

\* ------------------------------------------------------------------------
\* C15
\* ------------------------------------------------------------------------
\* The value of field f for subject s in the highest layer that defines it:
\* persisted override, hard-coded override, category default.
LayeredValue(s, f) ==
    IF s \in DOMAIN icons /\ f \in DOMAIN icons[s] THEN icons[s][f]
    ELSE IF f \in DOMAIN ICON_OVERRIDES[s] THEN ICON_OVERRIDES[s][f]
    ELSE CATEGORY_DEFAULTS[ICON_CATEGORIES[s]][f]

\* The configuration resolved last is the one the store and the tables
\* give now.
ResolvedNow ==
    /\ resolved_subject # ""
    /\ resolved = get_icon_config(icons, resolved_subject)

\* C15 (as claimed): the configuration resolved for a subject with a
\* category defines every style field, with the value of the highest layer
\* that defines the field.
C15_LayeredMerge ==
    (ResolvedNow /\ resolved_subject \in DOMAIN ICON_CATEGORIES) =>
        \A f \in StyleFields :
            /\ f \in DOMAIN resolved
            /\ resolved[f] = LayeredValue(resolved_subject, f)

\* What the code guarantees instead: a non-empty persisted entry is the
\* resolved configuration, whole and alone; without one, the resolved
\* configuration of a subject with a category defines every style field with
\* the value of the hard-coded override or else the category default, and a
\* subject without category resolves to the empty configuration.
C15_PersistedEntryAlone ==
    ResolvedNow =>
        IF resolved_subject \in DOMAIN icons
        THEN resolved = icons[resolved_subject]
        ELSE IF resolved_subject \in DOMAIN ICON_CATEGORIES
        THEN \A f \in StyleFields :
                 /\ f \in DOMAIN resolved
                 /\ resolved[f] = LayeredValue(resolved_subject, f)
        ELSE resolved = EmptyDict

\* The persisted entry of the access point defines img_scale_ratio only,
\* and the configuration resolved for it is that entry: no circle_color, no
\* brand_text.
C15_Witness ==
    /\ ResolvedNow
    /\ resolved_subject = "AP - Cisco MR36H"
    /\ "AP - Cisco MR36H" \in DOMAIN icons
    /\ DOMAIN icons["AP - Cisco MR36H"] = {"img_scale_ratio"}
    /\ DOMAIN resolved = {"img_scale_ratio"}

\* The tuner has saved one field for the battery, and the configuration
\* resolved for it has that field with every other field at its hard-coded
\* or category value.
C15_WitnessSaved ==
    /\ ResolvedNow
    /\ resolved_subject = "PWR - EcoFlow Battery"
    /\ "PWR - EcoFlow Battery" \in DOMAIN icons
    /\ StyleFields \subseteq DOMAIN resolved
    /\ resolved["img_scale_ratio"] = "0.90"
    /\ resolved["brand_text"] = "ECOFLOW"
    /\ resolved["circle_color"] = "brown"

\* ------------------------------------------------------------------------
\* C16
\* ------------------------------------------------------------------------
\* C16 (as claimed): after a call of apply_to_writer that returned False,
\* is_loaded is False and get_ocg_ref returns None for every subject, also
\* when an earlier call had succeeded; before the first call get_ocg_ref
\* returns None and layer_count is 0.
C16_FailedApplyNotLoaded ==
    /\ (apply_result = "False") =>
          /\ ~applied
          /\ \A s \in DeploymentSubjects : get_ocg_ref(s) = NoRef
    /\ (apply_result = "none") =>
          /\ ~applied
          /\ layer_count = 0
          /\ \A s \in DeploymentSubjects : get_ocg_ref(s) = NoRef

\* What the code guarantees instead: before the first call nothing is
\* loaded; a call that fails by an exception leaves is_loaded False; a call
\* that fails because the file is missing or has no /OCProperties or no
\* /OCGs leaves is_loaded, the lookup and layer_count as the call before
\* left them; and every reference the lookup returns is an object of the
\* writer of the last successful call.
C16_FailedApplyKeepsState ==
    [][ /\ (apply_result' = "False" /\ writers' # writers) =>
              IF reference_pdf \in {"unreadable", "bad_ocg"}
              THEN ~applied'
              ELSE /\ applied' = applied
                   /\ name_to_ref' = name_to_ref
                   /\ layer_count' = layer_count
        /\ (apply_result' = "none") =>
              /\ ~applied' /\ layer_count' = 0 /\ name_to_ref' = EmptyDict
        /\ (apply_result' = "True" /\ writers' # writers) =>
              /\ applied'
              /\ \A n \in DOMAIN name_to_ref' :
                    name_to_ref'[n].writer = writers' ]_vars

\* The manager was applied to a first writer; the reference document then
\* went missing; the call for the second writer returned False, and the
\* manager still reports loaded and returns the first writer's layer.
C16_Witness ==
    /\ apply_result = "False"
    /\ reference_pdf = "missing"
    /\ writers = 2
    /\ applied
    /\ get_ocg_ref("AP - Cisco MR36H") = OcgRef(1, "AP - Cisco MR36H")

\* The first call on a manager without reference document has returned
\* False: nothing is loaded.
C16_WitnessFirstCall ==
    /\ apply_result = "False"
    /\ writers = 1
    /\ ~applied
    /\ layer_count = 0
    /\ \A s \in DeploymentSubjects : get_ocg_ref(s) = NoRef

\* ------------------------------------------------------------------------
\* C17
\* ------------------------------------------------------------------------
\* A step of the loader or of no one: the toolchest and the request stay.
LoaderStep == UNCHANGED <<toolchest, request_vars>>

\* The step in which a new request begins.
RequestBegins ==
    /\ request_pc \in {"idle", "done"}
    /\ request_vars' # request_vars

\* C17: a load_toolchest call on a missing root directory raises and leaves
\* bid_icons, deployment_icons and _loaded as they were; a conversion
\* request that begins while the root is missing ends with status 500 from
\* load_toolchest, has classified no annotation and has written no output,
\* and no request that failed in load_toolchest has classified or written
\* anything.
C17_MissingRootFatal ==
    /\ [][ (~toolchest.exists /\ LoaderStep) =>
             /\ load_result' = "raised"
             /\ UNCHANGED <<bid_icons, deployment_icons, loaded>> ]_vars
    /\ [][ (~toolchest.exists /\ RequestBegins) =>
             /\ request_pc' = "done"
             /\ request_status' = 500
             /\ request_error' = "load_toolchest"
             /\ request_classified' = 0
             /\ ~request_output'
             /\ UNCHANGED output_file ]_vars
    /\ [](request_error = "load_toolchest" =>
             request_classified = 0 /\ ~request_output)

\* A loader that had loaded icons was asked to load again after the root
\* was removed, and a request has failed on the missing root.
C17_Witness ==
    /\ ~toolchest.exists
    /\ load_result = "raised"
    /\ loaded
    /\ DOMAIN bid_icons # {}
    /\ DOMAIN deployment_icons # {}
    /\ request_error = "load_toolchest"
    /\ request_status = 500

\* ------------------------------------------------------------------------
\* C18
\* ------------------------------------------------------------------------
\* The listing l without its i-th file.
WithoutFile(l, i) == SubSeq(l, 1, i - 1) \o SubSeq(l, i + 1, Len(l))

\* The positions of the files of l that fail to parse.
Failing(l) == { i \in DOMAIN l : ~l[i].parses }

\* The table is what loading the directory without any one of its failing
\* files gives, and holds nothing from a failing file.
SkipsFailing(table, dir) ==
    /\ \A i \in Failing(dir.files) :
         /\ table = table_of(Dir(WithoutFile(dir.files, i)))
         /\ \A subject \in DOMAIN table :
              table[subject].source_file # dir.files[i].name
    /\ dir.exists => \A f \in { dir.files[i] : i \in DOMAIN dir.files } :
         f.parses => \A k \in DOMAIN f.items :
            f.items[k] # "" => f.items[k] \in DOMAIN table

\* C18: after load_toolchest has returned, each table equals the table
\* obtained from the same directory without the failing file, wherever the
\* failing file is in the scan order; no icon comes from a failing file and
\* the subjects of the files that parse are all in the table.
C18_FailingFileSkipped ==
    loaded =>
        /\ SkipsFailing(bid_icons, scanned.bid)
        /\ SkipsFailing(deployment_icons, scanned.deployment)

\* The failing file was first in the scan of bidTools and a file after it
\* was loaded.
C18_Witness ==
    /\ loaded
    /\ Len(scanned.bid.files) >= 2
    /\ 1 \in Failing(scanned.bid.files)
    /\ DOMAIN bid_icons # {}

\* The failing file was last in the scan of bidTools.
C18_WitnessLast ==
    /\ loaded
    /\ Len(scanned.bid.files) >= 2
    /\ Len(scanned.bid.files) \in Failing(scanned.bid.files)
    /\ DOMAIN bid_icons # {}

\* ------------------------------------------------------------------------
\* C19
\* ------------------------------------------------------------------------
\* A step of the extractor or of no one: the document and the request stay.
ExtractorStep == UNCHANGED <<reference_document, request_vars>>

\* C19 (as claimed): a load_from_pdf call on a missing or unreadable
\* document raises nothing and returns 0, has_appearance is False for every
\* subject after it, and no conversion request fails in load_from_pdf.
C19_MissingReportsZero ==
    /\ [][ (reference_document.state # "readable" /\ ExtractorStep) =>
             /\ extractor_result'.raised = ""
             /\ extractor_result'.count = 0
             /\ DOMAIN appearances' = {} ]_vars
    /\ [](request_error # "load_from_pdf")

\* What the code does instead: on a missing document the call raises
\* FileNotFoundError and leaves appearances and _loaded as they were; on an
\* unreadable document it raises after it has cleared appearances; a request
\* whose deployment map exists and is unreadable ends with status 500 before
\* any annotation is classified.
C19_MissingRaises ==
    /\ [][ (reference_document.state = "missing" /\ ExtractorStep) =>
             /\ extractor_result'.raised = "FileNotFoundError"
             /\ UNCHANGED <<appearances, extractor_loaded>> ]_vars
    /\ [][ (reference_document.state = "unreadable" /\ ExtractorStep) =>
             /\ extractor_result'.raised # ""
             /\ DOMAIN appearances' = {}
             /\ UNCHANGED extractor_loaded ]_vars
    /\ [](request_error = "load_from_pdf" =>
             /\ request_status = 500
             /\ request_classified = 0
             /\ ~request_output)

\* The call on a missing document has raised, and the entries of an earlier
\* load are still there.
C19_Witness ==
    /\ reference_document.state = "missing"
    /\ extractor_result.raised = "FileNotFoundError"
    /\ has_appearance("AP - Cisco MR36H")

\* A request has failed on an unreadable deployment map.
C19_WitnessRequest ==
    /\ request_pc = "done"
    /\ request_error = "load_from_pdf"
    /\ request_status = 500

\* ------------------------------------------------------------------------
\* C20
\* ------------------------------------------------------------------------
\* A run on a missing input has ended.
MissingInputRun == runs > 0 /\ pc = "done" /\ ~input_exists

\* Nothing of the document was processed and nothing was written.
NothingProcessed ==
    /\ total = 0
    /\ annots = <<>>
    /\ new_annots = <<>>
    /\ calls = <<>>
    /\ ~output_written

\* The output is written only when every entry of the page has been read
\* and the rebuilt array is complete.
WrittenAfterRebuild ==
    output_written =>
        /\ pc = "done"
        /\ input_exists
        /\ Len(annots) = total
        /\ converted_count + skipped_count <= total

\* C20 (as claimed): a run on a missing input processes nothing, writes
\* nothing and ends in a failure raised to the caller; the output is written
\* only after the whole page has been rebuilt.
C20_MissingInputHardFailure ==
    /\ MissingInputRun => (NothingProcessed /\ run_raised)
    /\ WrittenAfterRebuild

\* C20 (amended): a run on a missing input processes nothing and writes
\* nothing, and returns (0, 0, []) to the caller without raising, after it
\* has reset the identifier counters and the sequence counter; the output is
\* written only after the whole page has been rebuilt.
C20_MissingInputReturnsEmpty ==
    /\ MissingInputRun =>
         /\ NothingProcessed
         /\ ~run_raised
         /\ <<converted_count, skipped_count, skipped_subjects>> =
              missing_input.result
         /\ counters = FreshCounters
         /\ sequence_counter = 0
    /\ WrittenAfterRebuild

\* A second run of a replacer, on a missing input, has ended; the first run
\* had handed out identifiers.
C20_Witness ==
    /\ MissingInputRun
    /\ runs = 2
    /\ dirty

\* A run on an existing input has written its output after two entries.
C20_WitnessWritten ==
    /\ output_written
    /\ total = 2
    /\ converted_count >= 1

\* ------------------------------------------------------------------------
\* C21
\* ------------------------------------------------------------------------
\* C21: once a save() has begun, whether it is still running, was
\* interrupted after any step or has completed, load() returns the complete
\* contents from before that save() or its complete new contents, and so
\* did every load() made since it began; after a completed save() load()
\* returns the new contents and no temp file exists.
C21_CrashSafe ==
    /\ store_saves > 0 =>
         load_file(store_files["json"]) \in {store_previous, store_new}
    /\ (store_saves > 0 /\ store_loaded.save = store_saves) =>
         store_loaded.data \in {store_previous, store_new}
    /\ store_result = "completed" =>
         /\ load_file(store_files["json"]) = store_new
         /\ ~store_files["tmp"].exists

\* A save() over a file with icons was interrupted with the temp file partly
\* written, and the load() after it returned the previous contents.
C21_Witness ==
    /\ store_result = "interrupted"
    /\ store_files["tmp"].exists
    /\ store_files["tmp"].written \in 1..(MaxChunks - 1)
    /\ store_previous.rev > 0
    /\ DOMAIN store_previous.icons # {}
    /\ store_new # store_previous
    /\ store_loaded =
         [data |-> store_previous, save |-> store_saves,
          after |-> "interrupted"]

\* A save() was interrupted with the temp file complete before the rename.
C21_WitnessComplete ==
    /\ store_result = "interrupted"
    /\ store_files["tmp"].written = MaxChunks
    /\ store_loaded.data = store_previous
    /\ store_loaded.save = store_saves
    /\ store_loaded.after = "interrupted"
    /\ store_previous.rev > 0

\* ------------------------------------------------------------------------
\* C22
\* ------------------------------------------------------------------------
\* The entry of file_id is in the index and its retention period has not
\* elapsed at the time now.
Retained(index, file_id, now) ==
    /\ file_id \in DOMAIN index
    /\ now <= index[file_id] + file_retention_hours

C22_WitnessCleanup ==
    /\ fm_op = "cleanup"
    /\ fm_count = 1
    /\ DOMAIN fm_files # {}

\* ------------------------------------------------------------------------
\* C23
\* ------------------------------------------------------------------------
\* The positions of the group whose root is at position k.
GroupOf(k) == { j \in Generated : new_annots[j].src = new_annots[k].src }

\* The group of the root at k has an id_box_border component.
HasIdBox(k) == \E j \in GroupOf(k) : new_annots[j].role = "id_box_border"

\* get_next_id returns None for the subject, whatever was looked up before.
NoIdConfigured(subject) == get_next_id(counters, subject).label = NoLabel

\* C23 (as claimed): the group emitted for a converted annotation whose
\* deployment subject has no identifier has no id_box_border component, and
\* its root carries the empty identifier label.
C23_NoIdNoBox ==
    \A k \in Roots :
        NoIdConfigured(new_annots[k].subj) =>
            /\ ~HasIdBox(k)
            /\ new_annots[k].id_label = EmptyLabel

\* What the code does instead: the root of a subject without identifier
\* carries the empty label, and the id_box_border component is there unless
\* the configuration of the subject sets no_id_box, with or without
\* identifier.
C23_BoxFollowsConfig ==
    \A k \in Roots :
        /\ NoIdConfigured(new_annots[k].subj) =>
               new_annots[k].id_label = EmptyLabel
        /\ HasIdBox(k) <=> ~SubjectFlags.no_id_box

\* A finished run has emitted the group of a battery, which has no
\* identifier: its root has the empty label and an id box follows it.
C23_Witness ==
    /\ pc = "done" /\ output_written
    /\ \E k \in Roots :
         /\ new_annots[k].subj = "PWR - EcoFlow Battery"
         /\ new_annots[k].id_label = EmptyLabel
         /\ HasIdBox(k)

\* ------------------------------------------------------------------------
\* C24: on the fallback path the native color and border properties are on
\* the emitted annotation only when no rich appearance stream was produced
\* for it: an annotation with a rich stream carries none of them.
\* ------------------------------------------------------------------------
\* A single annotation has been emitted by the fallback path.
Emitted == fallback_annot # NoAnnotation

\* The emitted annotation carries /IC, /C or /BS.
CarriesNative ==
    \/ fallback_annot.ic # "absent"
    \/ fallback_annot.c # "absent"
    \/ fallback_annot.bs # "absent"

C24_NativeOnlyWithoutRich ==
    Emitted /\ fallback_annot.ap = "rich" => ~CarriesNative

\* What the code does: every annotation of the fallback path carries the
\* three properties, with the colors of _get_colors_for_annotation, and its
\* stream is rich only if the configuration changed during the conversion.
C24_NativeAlways ==
    Emitted =>
        /\ fallback_annot.ic =
               get_colors_for_annotation(fallback_colors).fill
        /\ fallback_annot.c =
               get_colors_for_annotation(fallback_colors).stroke
        /\ fallback_annot.bs = "solid"
        /\ (fallback_annot.ap = "rich" => fallback_changed)

\* A fallback annotation with a rich stream and the native properties.
C24_Witness ==
    /\ Emitted
    /\ fallback_annot.ap = "rich"
    /\ CarriesNative

\* A fallback annotation with the simple stream and the native properties.
C24_WitnessSimple ==
    /\ Emitted
    /\ fallback_annot.ap = "simple"
    /\ CarriesNative

\* ------------------------------------------------------------------------
\* C25: render_compound_icon returns None for a subject with no
\* configuration, and otherwise 3 to 7 components in the fixed order
\* root_id_text, id_box_border, container, circle, image, model_text,
\* brand_text; root_id_text, container and circle are always there,
\* id_box_border iff no_id_box is unset, image iff an image path is
\* configured, the file exists and no_image is unset, model_text iff the
\* model text is non-empty, brand_text iff the brand text is non-empty; a
\* missing image does not make the icon fail.
\* ------------------------------------------------------------------------
RoleOrder ==
    << "root_id_text", "id_box_border", "container", "circle", "image",
       "model_text", "brand_text" >>

\* The position of a role in the fixed order.
RoleRank(role) == CHOOSE k \in 1..Len(RoleOrder) : RoleOrder[k] = role

\* The roles of the components returned.
RolesReturned == { icon_components[i].role : i \in DOMAIN icon_components }

\* The model text the icon shows is not empty.
ModelTextShown ==
    IF icon_config.model_text_override # "" THEN TRUE
    ELSE icon_model_text # ""

C25_WitnessNone ==
    /\ ~icon_config.configured
    /\ icon_subject # ""
    /\ icon_components = <<>>

\* The shortest and the longest lists.
C25_WitnessThree == icon_config.configured /\ Len(icon_components) = 3

C25_WitnessSeven == icon_config.configured /\ Len(icon_components) = 7

\* ------------------------------------------------------------------------
\* C26: different device types have independent counters: for any two
\* configured subjects other than the NOC variants, get_next_id calls for
\* one never change the numbers returned for the other.
\* ------------------------------------------------------------------------
\* The NOC variants, documented to share one counter.
NocSubjects == { "DIST - Micro NOC", "DIST - Mini NOC" }

\* The lookups of the log other than those of subject t.
CallsWithout(t) == LET Other(x) == x # t IN SelectSeq(calls, Other)

\* The numbers in the labels seq[i] returned for the lookups of subject s
\* in the lookups subjects.
NumbersOf(s, subjects, seq) ==
    LET At(i) == subjects[i] = s
        RECURSIVE Pick(_)
        Pick(i) == IF i > Len(subjects) THEN <<>>
                   ELSE (IF At(i) THEN << seq[i].num >> ELSE <<>>)
                        \o Pick(i + 1)
    IN  Pick(1)

\* The lookups of t leave the numbers of s as they are without them.
Unaffected(s, t) ==
    NumbersOf(s, calls, labels) =
        NumbersOf(s, CallsWithout(t), FreshLabels(CallsWithout(t)))

C26_IndependentCounters ==
    \A s, t \in IdSubjects :
        s # t /\ ~(s \in NocSubjects /\ t \in NocSubjects) =>
            Unaffected(s, t)

\* What the code does: two subjects are independent iff their counter keys
\* differ.
C26_IndependentKeys ==
    \A s, t \in IdSubjects :
        counter_key(ID_PREFIX_CONFIG[s].prefix, ID_PREFIX_CONFIG[s].start)
          # counter_key(ID_PREFIX_CONFIG[t].prefix, ID_PREFIX_CONFIG[t].start)
        => Unaffected(s, t)

\* A camera and a switch were looked up and the switch did not start at its
\* start number.
C26_Witness ==
    /\ calls = << "CCTV - Cisco MV93X", "SW - Cisco Micro 4P" >>
    /\ labels[2].num = 101

\* Two access-point-like subjects with different keys, interleaved.
C26_WitnessIndependent ==
    /\ calls = << "AP - Cisco MR36H", "SW - Cisco 9300X 24X",
                  "AP - Cisco MR36H" >>
    /\ labels[3].num = 101

\* ------------------------------------------------------------------------
\* C28: within one conversion run identifier labels are unique: no two
\* get_next_id calls between two resets return the same label, for any
\* number and order of calls over the configured subjects, ranges that
\* share a prefix with different starts included.
\* ------------------------------------------------------------------------
\* The positions of the log at which a label was returned.
Labelled == { i \in DOMAIN labels : labels[i] # NoLabel }

C28_LabelsUnique ==
    Cardinality({ labels[i] : i \in Labelled }) = Cardinality(Labelled)

\* No counter has reached the start of a later range of its prefix.
WithinRanges ==
    \A s, t \in IdSubjects :
        LET cs == ID_PREFIX_CONFIG[s]
            ct == ID_PREFIX_CONFIG[t]
            key == counter_key(cs.prefix, cs.start)
        IN  /\ cs.prefix = ct.prefix
            /\ format_type(cs) = format_type(ct)
            /\ cs.start < ct.start
            /\ key \in DOMAIN counters
            => counters[key] < ct.start

\* What the code does: the labels are unique as long as every counter stays
\* below the next start of its prefix.
C28_UniqueWithinRanges == WithinRanges => C28_LabelsUnique

\* The label d500 was returned twice: by the lookup of the d300 range that
\* reached 500 and by the first lookup of the d500 range.
C28_Witness ==
    \E i, j \in Labelled :
        /\ i < j
        /\ labels[i] = labels[j]
        /\ calls[i] # calls[j]

\* Two ranges of one prefix in use, and all labels different.
C28_WitnessUnique ==
    /\ WithinRanges
    /\ \E i, j \in Labelled :
         /\ calls[i] = "SW - Cisco 9300X 24X"
         /\ calls[j] = "SW - Cisco 9300 12X36M"
    /\ C28_LabelsUnique

\* ------------------------------------------------------------------------
\* C27: within one direction the record stored for a subject after
\* load_toolchest is the one of the subject's first occurrence in scan
\* order, a later item with the same subject never replaces it, and the
\* icon count of the direction is the number of distinct subjects found;
\* the same subject in the other direction is kept independently.
\* ------------------------------------------------------------------------
\* The occurrences of subject in the directory dir: file i of the listing
\* parses and its item j has the subject.
Occurrences(dir, subject) ==
    { o \in { <<i, j>> : i \in DOMAIN dir.files, j \in 1..2 } :
        /\ dir.files[o[1]].parses
        /\ o[2] \in DOMAIN dir.files[o[1]].items
        /\ dir.files[o[1]].items[o[2]] = subject }

\* The subjects found in dir.
SubjectsFound(dir) ==
    { subject \in { "AP - Cisco MR36H", "SW - Cisco Micro 4P",
                    "PWR - EcoFlow Battery" } :
        Occurrences(dir, subject) # {} }

\* The first occurrence in scan order.
FirstOccurrence(dir, subject) ==
    CHOOSE o \in Occurrences(dir, subject) :
        \A q \in Occurrences(dir, subject) :
            o[1] < q[1] \/ (o[1] = q[1] /\ o[2] <= q[2])

\* The table holds, for the subjects found in dir and for no other, the
\* record of the first occurrence.
FirstWins(table, dir) ==
    /\ DOMAIN table = SubjectsFound(dir)
    /\ Cardinality(DOMAIN table) = Cardinality(SubjectsFound(dir))
    /\ \A subject \in DOMAIN table :
         LET file == dir.files[FirstOccurrence(dir, subject)[1]]
         IN  /\ table[subject].subject = subject
             /\ table[subject].source_file = file.name
             /\ table[subject].category =
                    extract_category_from_filename(file.name)

C27_FirstOccurrenceWins ==
    loaded =>
        /\ FirstWins(bid_icons, scanned.bid)
        /\ FirstWins(deployment_icons, scanned.deployment)

\* A subject occurs in two files of the bid directory and in the
\* deployment directory: the bid table has the record of the first file,
\* the deployment table its own.
C27_Witness ==
    /\ loaded
    /\ Cardinality({ o[1] : o \in Occurrences(scanned.bid,
                                              "AP - Cisco MR36H") }) = 2
    /\ scanned.bid.files[1] = ApFile
    /\ bid_icons["AP - Cisco MR36H"].source_file = ApFile.name
    /\ Cardinality(DOMAIN bid_icons) = 2
    /\ "AP - Cisco MR36H" \in DOMAIN deployment_icons
    /\ deployment_icons["AP - Cisco MR36H"].source_file = SwitchFile.name

\* The same two files scanned in the other order.
C27_WitnessOtherOrder ==
    /\ loaded
    /\ scanned.bid.files = << SwitchFile, ApFile >>
    /\ bid_icons["AP - Cisco MR36H"].source_file = SwitchFile.name

\* ------------------------------------------------------------------------
\* C29: an entry that ends in the error-recovery outcome leaves the
\* run-scoped counters unchanged: it consumes no device identifier and no
\* group sequence index, so the labels of the icons emitted for one counter
\* are consecutive from its start and the sequence indices of the emitted
\* roots have no gaps.
\* ------------------------------------------------------------------------
\* The step is the error recovery of the entry at the current index.
ErrorRecoveryStep ==
    /\ pc = "loop"
    /\ Len(annots') = Len(annots) + 1
    /\ skipped_subjects' = Append(skipped_subjects, ErrorTag(Idx))

\* The error recovery of an entry that raised before its identifier lookup.
EarlyErrorStep ==
    /\ ErrorRecoveryStep
    /\ \/ annots'[Len(annots')].fault = "deref"
       \/ annots'[Len(annots')].rect = "raises"

\* The identifiers and the sequence counter are as before the step.
CountersKept ==
    /\ counters' = counters
    /\ sequence_counter' = sequence_counter

\* The roots emitted with a label of the counter of subject s carry the
\* numbers start, start + 1, ... in emission order.
LabelsConsecutive ==
    \A k \in Roots :
        new_annots[k].id_label # EmptyLabel =>
            new_annots[k].id_label.num =
                ID_PREFIX_CONFIG[new_annots[k].subj].start
                + Cardinality({ j \in Roots :
                      /\ j < k
                      /\ new_annots[j].id_label # EmptyLabel
                      /\ new_annots[j].id_label.prefix
                             = new_annots[k].id_label.prefix })

\* The indices of the emitted roots are 0, 1, 2, ... without a gap.
IndicesWithoutGap ==
    { new_annots[k].sequence[2] : k \in Roots } = 0..(Cardinality(Roots) - 1)

C29_ErrorConsumesNothing ==
    /\ [][ErrorRecoveryStep => CountersKept]_vars
    /\ [](LabelsConsecutive /\ IndicesWithoutGap)

\* What the code does: an entry that raised before the identifier lookup
\* (an unreadable entry, a /Rect that float() rejects) consumes nothing, and
\* no error recovery ever lowers a counter.
C29_EarlyErrorConsumesNothing ==
    /\ [][EarlyErrorStep => CountersKept]_vars
    /\ [][ErrorRecoveryStep => sequence_counter' >= sequence_counter]_vars

\* A finished run in which the only icon emitted for the j counter carries
\* j101: an entry of the same subject ended in error recovery after its
\* identifier lookup.
C29_Witness ==
    /\ pc = "done" /\ output_written
    /\ \E p \in Read : annots[p].fault = "convert"
    /\ Cardinality(Roots) = 1
    /\ \E k \in Roots : /\ new_annots[k].id_label.prefix = "j"
                        /\ new_annots[k].id_label.num = 101

\* A finished run with an early error and an icon emitted after it with the
\* first label of its counter.
C29_WitnessEarly ==
    /\ pc = "done" /\ output_written
    /\ Len(annots) = 2
    /\ annots[1].fault = "deref" \/ annots[1].rect = "raises"
    /\ \E k \in Roots : /\ new_annots[k].id_label.prefix = "j"
                        /\ new_annots[k].id_label.num = 100

\* ------------------------------------------------------------------------
\* C30: the rebuilt array keeps the input order: preserved entries appear
\* in their original relative order, and the objects generated for each
\* converted annotation appear contiguously, root first, at the position
\* of the annotation they replace relative to the surviving entries.
\* ------------------------------------------------------------------------
\* The index in the input array of the entry that position k of the rebuilt
\* array stands for: the entry preserved, or the entry replaced.
InputIndex(k) ==
    IF new_annots[k].kind = "orig" THEN new_annots[k].ref
    ELSE new_annots[k].src

\* The positions of the rebuilt array that hold preserved entries.
Preserved == { k \in 1..Len(new_annots) : new_annots[k].kind = "orig" }

C30_KeepsInputOrder ==
    /\ \A j, k \in Preserved : j < k => InputIndex(j) < InputIndex(k)
    /\ \A j, k \in 1..Len(new_annots) :
          j < k => InputIndex(j) <= InputIndex(k)
    /\ \A j \in Preserved, k \in Generated : InputIndex(j) # InputIndex(k)
    /\ \A j, k \in Generated :
          (j < k /\ InputIndex(j) = InputIndex(k)) =>
              \A m \in j..k : /\ m \in Generated
                              /\ InputIndex(m) = InputIndex(j)
    /\ \A k \in Generated :
          (new_annots[k].role \in {"root_id_text", "single"})
            <=> (\A j \in Generated :
                    InputIndex(j) = InputIndex(k) => k <= j)

\* A finished run that replaced its first entry by a group and kept the
\* second.
C30_Witness ==
    /\ pc = "done" /\ output_written
    /\ Len(annots) = 2
    /\ Len(new_annots) = 8
    /\ new_annots[1].kind = "gen" /\ new_annots[1].role = "root_id_text"
    /\ \A k \in 1..7 : new_annots[k].kind = "gen" /\ new_annots[k].src = 0
    /\ new_annots[8] = OrigRef(1)

\* A finished run that kept its first entry and replaced the second by a
\* single annotation.
C30_WitnessSingle ==
    /\ pc = "done" /\ output_written
    /\ Len(annots) = 2
    /\ Len(new_annots) = 2
    /\ new_annots[1] = OrigRef(0)
    /\ new_annots[2].kind = "gen" /\ new_annots[2].role = "single"
    /\ new_annots[2].src = 1

====
